---- MODULE Spec2Model ----
(***************************************************************************)
(* Verification model of the succinct-data-structure core of sux-rs:       *)
(*   - BitFieldVec / AtomicBitFieldVec  (src/src/bits/bit_field_vec.rs)    *)
(*   - EliasFanoBuilder / EliasFano     (src/src/dict/elias_fano.rs)       *)
(*   - Function (static retrieval function, src/examples/func.rs)          *)
(*                                                                         *)
(* Machine words are modelled for W = u8 (W::BITS = 8), one of the Word    *)
(* types the vector is instantiated with.  Every component has its own     *)
(* specification (SpecVec, SpecAtomic, SpecEF, Spec); the variables of the *)
(* components a specification does not exercise stay at their idle value.  *)
(***************************************************************************)
EXTENDS Integers, Sequences, FiniteSets, TLC

VARIABLES
    overflow_checks, \* TRUE: build with overflow checks (debug), FALSE: release
    vec,             \* BitFieldVec: [data, bit_width, mask, len]
    vec_pre,         \* ghost: the vector before the last mutating operation
    vec_op,          \* ghost: the last operation and its arguments
    vec_status,      \* "ok" | "panicked" | "diverged" | "ub"
    vec_ref,         \* ghost: the reference list of the growable vector
    sink,            \* the bytes of the file the vector was serialized to
    it,              \* unchecked iterator over vec (or kind = "none")
    avec,            \* AtomicBitFieldVec: [data, bit_width, mask, len]
    athreads,        \* per thread: position inside set_atomic_unchecked
    aexpect,         \* ghost: per index, the last value its writer passed to set_atomic
    acontended,      \* ghost: some compare_exchange has failed
    astatus,         \* "ok" | "panicked" | "ub"
    efb,             \* EliasFanoBuilder, and after build the EliasFano
    ef_built,        \* build() has consumed the builder
    ef_xs,           \* ghost: the values accepted by push, in order
    ef_op,           \* ghost: the last push, its result and the builder before it
    args,            \* Function::new arguments: keys, values, bit_width
    remap,           \* T::remap(key, seed) at the current seed, per key
    seed,            \* the seed of the current attempt
    dup_count,       \* duplicate counter of Function::new
    fpc,             \* position of Function::new
    panic_msg,       \* message of the panic, if any
    sigs,            \* (signature, value) pairs of the attempt
    plan,            \* parameters and geometry of the attempt
    data,            \* the attempt's atomic value vector
    chunk_ctr,       \* the shared chunk counter
    fail,            \* the shared fail flag
    workers,         \* per worker: position, chunk, edge lists, stack
    func,            \* the returned Function
    hist             \* ghost: seeds tried, duplicate detections

vecVars == <<vec, vec_pre, vec_op, vec_status, vec_ref, sink, it>>
atomicVars == <<avec, athreads, aexpect, acontended, astatus>>
efVars == <<efb, ef_built, ef_xs, ef_op>>
funcVars == <<args, remap, seed, dup_count, fpc, panic_msg, sigs, plan, data,
              chunk_ctr, fail, workers, func, hist>>

(***************************************************************************)
(* Bounds of the model.                                                    *)
(***************************************************************************)
MaxLen == 3
NThreads == 2       \* threads writing the atomic vector
MaxWrites == 2      \* set_atomic calls per thread
MaxU == 12          \* largest Elias-Fano upper bound u
MaxKeys == 3        \* keys given to Function::new
MaxSeed == 4        \* seeds tried by Function::new
NumCpus == 2        \* num_cpus::get()
HalfTop == 2        \* bits kept of each 32-bit half of a signature
DEG_BITS == 10      \* usize::BITS - EdgeList::DEG_SHIFT
PeelIncr == 1024    \* incr, the block of the peeling cursor

(***************************************************************************)
(* Word arithmetic for W = u8.                                             *)
(***************************************************************************)
WBITS == 8
WideBits == 16       \* W::BITS of the wider word of SpecWide
WMAX == 2^WBITS - 1

Min(a, b) == IF a <= b THEN a ELSE b
Max(a, b) == IF a >= b THEN a ELSE b

RECURSIVE BitAndN(_, _, _)
BitAndN(x, y, n) ==
    IF n = 0 THEN 0
    ELSE (x % 2) * (y % 2) + 2 * BitAndN(x \div 2, y \div 2, n - 1)

BitAnd(x, y) == BitAndN(x, y, WBITS)
BitOr(x, y) == x + y - BitAnd(x, y)
BitXor(x, y) == x + y - 2 * BitAnd(x, y)
BitNot(x) == WMAX - x

\* A shift by k >= W::BITS panics when overflow checks are on; without them
\* the shift amount is taken modulo W::BITS.
ShiftOverflows(k) == k >= WBITS
Shl(x, k) == (x * 2^(k % WBITS)) % 2^WBITS
Shr(x, k) == x \div 2^(k % WBITS)
RotL(x, k) == BitOr(Shl(x, k % WBITS), x \div 2^(WBITS - (k % WBITS)))

DivCeil(a, b) == (a + b - 1) \div b
IsPowerOfTwo(x) == x \in {2^k : k \in 0..WBITS}

(***************************************************************************)
(* BitFieldVec<W, Vec<W>>.  data is the word vector (data[1] is word 0).    *)
(***************************************************************************)
mask(bit_width) ==
    IF bit_width = 0 THEN 0 ELSE Shr(WMAX, WBITS - bit_width)

NOfWords(bit_width, len) == Max(1, (len * bit_width + WBITS - 1) \div WBITS)

fill_words(bit_width, len, word) ==
    [data |-> [w \in 1..NOfWords(bit_width, len) |-> word],
     bit_width |-> bit_width,
     mask |-> mask(bit_width),
     len |-> len]

Word(v, word_index) == v.data[word_index + 1]

get_unchecked(v, index) ==
    LET pos == index * v.bit_width
        word_index == pos \div WBITS
        bit_index == pos % WBITS
    IN  IF bit_index + v.bit_width <= WBITS
        THEN BitAnd(Shr(Word(v, word_index), bit_index), v.mask)
        ELSE BitAnd(BitOr(Shr(Word(v, word_index), bit_index),
                          Shl(Word(v, word_index + 1), WBITS - bit_index)),
                    v.mask)

\* set_unchecked with a plausible slip: the second word of a straddling
\* element is OR-ed without clearing the bits it held.
set_unchecked_stale_high(v, index, value) ==
    LET pos == index * v.bit_width
        word_index == pos \div WBITS
        bit_index == pos % WBITS
    IN  IF bit_index + v.bit_width <= WBITS
        THEN LET word == BitOr(BitAnd(Word(v, word_index),
                                      BitNot(Shl(v.mask, bit_index))),
                               Shl(value, bit_index))
             IN  [v EXCEPT !.data[word_index + 1] = word]
        ELSE LET lo == BitOr(BitAnd(Word(v, word_index), Shl(1, bit_index) - 1),
                             Shl(value, bit_index))
                 hi == BitOr(Word(v, word_index + 1), Shr(value, WBITS - bit_index))
             IN  [v EXCEPT !.data[word_index + 1] = lo,
                           !.data[word_index + 2] = hi]

set_unchecked(v, index, value) ==
    LET pos == index * v.bit_width
        word_index == pos \div WBITS
        bit_index == pos % WBITS
    IN  IF bit_index + v.bit_width <= WBITS
        THEN LET word == BitOr(BitAnd(Word(v, word_index),
                                      BitNot(Shl(v.mask, bit_index))),
                               Shl(value, bit_index))
             IN  [v EXCEPT !.data[word_index + 1] = word]
        ELSE LET lo == BitOr(BitAnd(Word(v, word_index), Shl(1, bit_index) - 1),
                             Shl(value, bit_index))
                 hi == BitOr(BitAnd(Word(v, word_index + 1),
                                    BitNot(Shr(v.mask, WBITS - bit_index))),
                             Shr(value, WBITS - bit_index))
             IN  [v EXCEPT !.data[word_index + 1] = lo,
                           !.data[word_index + 2] = hi]

\* The elements of a vector, as the sequence get(0), ..., get(len - 1).
Elements(v) == [i \in 1..v.len |-> get_unchecked(v, i - 1)]

(***************************************************************************)
(* Checked set (BitFieldSliceMut::set): panics on an index out of bounds   *)
(* or a value that does not fit.                                           *)
(***************************************************************************)
set(v, index, value) ==
    IF index >= v.len \/ value > v.mask
    THEN [status |-> "panicked", vec |-> v]
    ELSE [status |-> "ok", vec |-> set_unchecked(v, index, value)]

(***************************************************************************)
(* get_unaligned: the assertion on the bit width, then an unaligned read   *)
(* of one word at a byte offset.  A read that leaves the storage is        *)
(* undefined: status "ub", any value.                                      *)
(***************************************************************************)
WBYTES == WBITS \div 8

\* the condition of the assert! and of the debug_assert!
UnalignedAssertion(bit_width) ==
    /\ bit_width % 8 # 3
    /\ bit_width % 8 # 5
    /\ bit_width # 6
    /\ bit_width # 7

\* the byte offset index / W::BYTES, and whether the W::BYTES bytes read
\* from it lie in a storage of n_of_words words of w_bytes bytes
UnalignedOffset(index, w_bytes) == index \div w_bytes
UnalignedInStorage(index, w_bytes, n_of_words) ==
    UnalignedOffset(index, w_bytes) + w_bytes <= n_of_words * w_bytes

\* for W = u8 the word read at byte offset k is word k
get_unaligned_unchecked(v, index, beyond) ==
    LET offset == UnalignedOffset(index, WBYTES)
    IN  IF UnalignedInStorage(index, WBYTES, Len(v.data))
        THEN [status |-> "ok",
              value |-> BitAnd(Shr(Word(v, offset), index % WBITS), v.mask)]
        ELSE [status |-> "ub", value |-> BitAnd(beyond, v.mask)]

get_unaligned(v, index, beyond) ==
    IF index >= v.len THEN [status |-> "panicked", value |-> 0]
    ELSE IF ~UnalignedAssertion(v.bit_width) THEN [status |-> "panicked", value |-> 0]
    ELSE get_unaligned_unchecked(v, index, beyond)

\* address_of: the index of the word whose address is returned; indexing the
\* storage panics out of bounds
address_of(v, index) ==
    LET pos == index * WBITS
        word_index == pos \div WBITS
    IN  IF word_index < Len(v.data)
        THEN [status |-> "ok", value |-> word_index]
        ELSE [status |-> "panicked", value |-> 0]

(***************************************************************************)
(* Serialization (traits/serdes.rs).  Integers are written in native byte  *)
(* order, taken little-endian; a usize has USIZE_BYTES bytes.  A vector is *)
(* its length, padding up to the alignment of its items, and its items; a  *)
(* slice is read back in place from the bytes.  A structure is the         *)
(* sequence of its fields in declaration order.                            *)
(***************************************************************************)
USIZE_BYTES == 8

\* to_ne_bytes of x < 2^31 on n bytes
ToNeBytes(x, n) ==
    [i \in 1..n |-> IF i <= 3 THEN (x \div 256^(i - 1)) % 256
                    ELSE IF i = 4 THEN x \div 256^3
                    ELSE 0]

\* from_ne_bytes (-1: a value the model cannot hold)
FromNeBytes(bytes) ==
    IF \E i \in 1..Len(bytes) : (i > 4 \/ (i = 4 /\ bytes[i] >= 128)) /\ bytes[i] # 0
    THEN -1
    ELSE LET b(i) == IF i <= Len(bytes) THEN bytes[i] ELSE 0
         IN  b(1) + 256 * b(2) + 256^2 * b(3) + 256^3 * b(4)

Zeros(n) == [i \in 1..n |-> 0]

\* bytes needed to bring pos to a multiple of align
pad_align_to(pos, align) == (align - (pos % align)) % align

RECURSIVE SerializeItemsOf(_, _)
\* for item in self { item.serialize(backend) }, items of size bytes
SerializeItemsOf(items, size) ==
    IF items = <<>> THEN <<>>
    ELSE ToNeBytes(Head(items), size) \o SerializeItemsOf(Tail(items), size)

SerializeItems(items) == SerializeItemsOf(items, WBYTES)

\* Serialize for Vec<T>, size_of::<T>() = size, written at position file_pos
\* of the sink: the length, the padding, the items
Serialize_Vec_T(items, size, file_pos) ==
    ToNeBytes(Len(items), USIZE_BYTES)
        \o Zeros(pad_align_to(file_pos + USIZE_BYTES, size))
        \o SerializeItemsOf(items, size)

\* Serialize for Vec<W>
Serialize_Vec(items, file_pos) == Serialize_Vec_T(items, WBYTES, file_pos)

\* Deserialize for usize and for W; ok = FALSE: the slice index panics
Deserialize_int(backend, n) ==
    IF Len(backend) < n THEN [ok |-> FALSE, value |-> 0, rest |-> backend]
    ELSE [ok |-> TRUE, value |-> FromNeBytes(SubSeq(backend, 1, n)),
          rest |-> SubSeq(backend, n + 1, Len(backend))]

\* Deserialize for &[T] with a plausible slip: the bytes of the items are
\* not consumed
Deserialize_Slice_not_consumed(backend, addr) ==
    LET l == Deserialize_int(backend, USIZE_BYTES)
        bytes == l.value * WBYTES
    IN  IF ~l.ok \/ bytes > Len(l.rest) THEN [ok |-> FALSE, value |-> <<>>, rest |-> backend]
        ELSE [ok |-> TRUE,
              value |-> [i \in 1..l.value |-> FromNeBytes(SubSeq(l.rest, i, i))],
              rest |-> l.rest]

\* Deserialize for &[T], size_of::<T>() = size, from bytes that start at
\* address addr: the length, then align_to on the next len * size bytes (pre:
\* the bytes before the first aligned address) and the assert on after
Deserialize_Slice_T(backend, size, addr) ==
    LET l == Deserialize_int(backend, USIZE_BYTES)
        bytes == l.value * size
        pre == Min(bytes, pad_align_to(addr + USIZE_BYTES, size))
        n_items == (bytes - pre) \div size
        after == bytes - pre - n_items * size
    IN  IF ~l.ok \/ bytes > Len(l.rest) \/ after # 0
        THEN [ok |-> FALSE, value |-> <<>>, rest |-> backend]
        ELSE [ok |-> TRUE,
              value |-> [i \in 1..n_items |->
                            FromNeBytes(SubSeq(l.rest, pre + (i - 1) * size + 1,
                                               pre + i * size))],
              rest |-> SubSeq(l.rest, bytes + 1, Len(l.rest))]

\* Deserialize for &[W]
Deserialize_Slice(backend, addr) == Deserialize_Slice_T(backend, WBYTES, addr)

\* the fields of BitFieldVec in declaration order: data, bit_width, mask, len
Serialize_BitFieldVec(v) ==
    Serialize_Vec(v.data, 0)
        \o ToNeBytes(v.bit_width, USIZE_BYTES)
        \o ToNeBytes(v.mask, WBYTES)
        \o ToNeBytes(v.len, USIZE_BYTES)

Deserialize_BitFieldVec(backend) ==
    LET d == Deserialize_Slice(backend, 0)
        b == Deserialize_int(d.rest, USIZE_BYTES)
        m == Deserialize_int(b.rest, WBYTES)
        l == Deserialize_int(m.rest, USIZE_BYTES)
    IN  IF d.ok /\ b.ok /\ m.ok /\ l.ok
        THEN [status |-> "ok",
              vec |-> [data |-> d.value, bit_width |-> b.value, mask |-> m.value,
                       len |-> l.value]]
        ELSE [status |-> "panicked", vec |-> fill_words(0, 0, 0)]

\* map: the bytes of the file; load: the file in a Vec<u64>, the last word
\* zero-extended
MapBytes(file) == file
LoadBytes(file) == file \o Zeros(((Len(file) + 7) \div 8) * 8 - Len(file))

(***************************************************************************)
(* Forward and reverse unchecked iterators: a rolling window and a fill    *)
(* counter.  The step operators return the new cursor, the value yielded   *)
(* and whether a shift by W::BITS or more was executed.                    *)
(***************************************************************************)
UncheckedIterator_new(v, index) ==
    IF index = v.len
    THEN [word_index |-> 0, window |-> 0, fill |-> 0]
    ELSE LET bit_offset == index * v.bit_width
             bit_index == bit_offset % WBITS
             word_index == bit_offset \div WBITS
         IN  [word_index |-> word_index,
              window |-> Shr(Word(v, word_index), bit_index),
              fill |-> WBITS - bit_index]

UncheckedIterator_next_unchecked(v, s) ==
    LET bit_width == v.bit_width
    IN  IF s.fill >= bit_width
        THEN [word_index |-> s.word_index,
              window |-> Shr(s.window, bit_width),
              fill |-> s.fill - bit_width,
              res |-> BitAnd(s.window, v.mask),
              overflow |-> ShiftOverflows(bit_width)]
        ELSE LET window == Word(v, s.word_index + 1)
                 used == bit_width - s.fill
             IN  [word_index |-> s.word_index + 1,
                  window |-> Shr(window, used),
                  fill |-> WBITS - used,
                  res |-> BitAnd(BitOr(s.window, Shl(window, s.fill)), v.mask),
                  overflow |-> ShiftOverflows(used)]

ReverseUncheckedIterator_new(v, index) ==
    IF index = 0
    THEN [word_index |-> 0, window |-> 0, fill |-> 0]
    ELSE LET bit_offset == Max(index * v.bit_width - 1, 0)  \* saturating_sub(1)
             bit_index == bit_offset % WBITS
             word_index == bit_offset \div WBITS
             fill == bit_index + 1
         IN  [word_index |-> word_index,
              window |-> Shl(Word(v, word_index), WBITS - fill),
              fill |-> fill]

ReverseUncheckedIterator_next_unchecked(v, s) ==
    LET bit_width == v.bit_width
    IN  IF s.fill >= bit_width
        THEN LET window == RotL(s.window, bit_width)
             IN  [word_index |-> s.word_index,
                  window |-> window,
                  fill |-> s.fill - bit_width,
                  res |-> BitAnd(window, v.mask),
                  overflow |-> FALSE]
        ELSE LET res0 == RotL(s.window, s.fill)
                 window == Word(v, s.word_index - 1)
                 used == bit_width - s.fill
             IN  [word_index |-> s.word_index - 1,
                  window |-> Shl(window, used),
                  fill |-> WBITS - used,
                  res |-> BitAnd(BitOr(Shl(res0, used), Shr(window, WBITS - used)),
                                 v.mask),
                  overflow |-> ShiftOverflows(used)]

(***************************************************************************)
(* apply_inplace_unchecked: one read buffer (cur), one write buffer (wb)   *)
(* and a running bit index (gbi).  F names the function applied.           *)
(***************************************************************************)
\* The functions applied: x -> (x + 1) & mask, x -> !x & mask, x -> x << 1
\* (whose result may not fit in bit_width bits), and the closure |_| value
\* of fill.
FnInc == [kind |-> "inc", const |-> 0]
FnNot == [kind |-> "not", const |-> 0]
FnShl == [kind |-> "shl", const |-> 0]
FnConst(value) == [kind |-> "const", const |-> value]
FnNone == [kind |-> "none", const |-> 0]
ApplyFns == {FnInc, FnNot, FnShl}

ApplyFn(fid, m, x) ==
    CASE fid.kind = "inc" -> BitAnd(x + 1, m)
      [] fid.kind = "not" -> m - x
      [] fid.kind = "shl" -> Shl(x, 1)
      [] OTHER -> fid.const

\* while global_bit_index + bit_width <= upper_word_limit
RECURSIVE ApplyInWord(_, _, _)
ApplyInWord(v, fid, s) ==
    IF s.gbi + v.bit_width <= s.upper
    THEN LET offset == s.gbi - s.lower
             element == BitAnd(v.mask, Shr(s.cur, offset))
             new_element == ApplyFn(fid, v.mask, element)
         IN  ApplyInWord(v, fid, [s EXCEPT !.gbi = @ + v.bit_width,
                                           !.wb = BitOr(@, Shl(new_element, offset))])
    ELSE s

\* for word_number in 0..(number_of_words - 1)
RECURSIVE ApplyWords(_, _, _, _, _)
ApplyWords(v, fid, word_number, last, s) ==
    IF word_number >= last THEN s
    ELSE LET s1 == ApplyInWord(v, fid, s)
             next_word == s1.data[word_number + 2]
             straddle == ~IsPowerOfTwo(v.bit_width) /\ s1.upper # s1.gbi
             remainder == s1.upper - s1.gbi
             offset == s1.gbi - s1.lower
             element == BitAnd(BitOr(Shr(s1.cur, offset), Shl(next_word, remainder)),
                               v.mask)
             new_element == ApplyFn(fid, v.mask, element)
             write_buffer == IF straddle THEN BitOr(s1.wb, Shl(new_element, offset))
                             ELSE s1.wb
             new_write_buffer == IF straddle THEN Shr(new_element, remainder) ELSE 0
         IN  ApplyWords(v, fid, word_number + 1, last,
                 [cur |-> next_word,
                  wb |-> new_write_buffer,
                  gbi |-> IF straddle THEN s1.gbi + v.bit_width ELSE s1.gbi,
                  lower |-> s1.upper,
                  upper |-> s1.upper + WBITS,
                  data |-> [s1.data EXCEPT ![word_number + 1] = write_buffer]])

\* while offset < len * bit_width - global_bit_index
RECURSIVE ApplyLastWord(_, _, _, _)
ApplyLastWord(v, fid, s, offset) ==
    IF offset < v.len * v.bit_width - s.gbi
    THEN LET element == BitAnd(v.mask, Shr(s.cur, offset))
             new_element == ApplyFn(fid, v.mask, element)
         IN  ApplyLastWord(v, fid, [s EXCEPT !.wb = BitOr(@, Shl(new_element, offset))],
                           offset + v.bit_width)
    ELSE s

\* The outcome of apply_inplace_unchecked.  With number_of_words = 0 the
\* bound number_of_words - 1 of the word loop underflows: a panic with
\* overflow checks, and otherwise a loop over 0..usize::MAX whose inner while
\* never advances global_bit_index (bit_width is 0).
apply_inplace_unchecked(v, fid, checks) ==
    LET number_of_words == DivCeil(v.len * v.bit_width, WBITS)
    IN  IF v.len = 0 THEN [status |-> "ok", vec |-> v]
        ELSE IF number_of_words = 0
        THEN [status |-> IF checks THEN "panicked" ELSE "diverged", vec |-> v]
        ELSE LET s0 == [cur |-> Word(v, 0), wb |-> 0, gbi |-> 0, lower |-> 0,
                        upper |-> WBITS, data |-> v.data]
                 s1 == ApplyWords(v, fid, 0, number_of_words - 1, s0)
                 s2 == ApplyLastWord(v, fid, s1, s1.gbi - s1.lower)
             IN  [status |-> "ok",
                  vec |-> [v EXCEPT !.data = [s2.data EXCEPT ![number_of_words] = s2.wb]]]

\* the elements on which the closure of apply_inplace panics: panic_if_value!
\* on a result that does not fit in bit_width bits
Unfit(v, fid) ==
    {i \in 0..(v.len - 1) : ApplyFn(fid, v.mask, get_unchecked(v, i)) > v.mask}

\* apply_inplace: apply_inplace_unchecked on the closure that checks each
\* result.  The closure panics at the first element whose result does not
\* fit; the words before the one in which that element starts have been
\* written, the others are untouched.  With number_of_words = 0 the closure
\* is first called inside the loop that does not end.
apply_inplace(v, fid, checks) ==
    LET r == apply_inplace_unchecked(v, fid, checks)
        unfit == Unfit(v, fid)
        first == CHOOSE i \in unfit : \A j \in unfit : i <= j
        word_index == (first * v.bit_width) \div WBITS
    IN  IF unfit = {} \/ r.status = "panicked" THEN r
        ELSE IF r.status = "diverged" THEN [status |-> "panicked", vec |-> v]
        ELSE [status |-> "panicked",
              vec |-> [v EXCEPT !.data = [w \in DOMAIN v.data |->
                          IF w <= word_index THEN r.vec.data[w] ELSE v.data[w]]]]

\* new_uninit followed by apply_inplace_unchecked(|_| value); uninit is the
\* content the allocation happens to hold, any word: it remains in the
\* storage when no element is written (len = 0).
fill(bit_width, len, value, uninit, checks) ==
    IF value > mask(bit_width)
    THEN [status |-> "panicked", vec |-> fill_words(bit_width, len, uninit)]
    ELSE apply_inplace_unchecked(fill_words(bit_width, len, uninit),
                                 FnConst(value), checks)

(***************************************************************************)
(* SpecVec: a BitFieldVec<u8> is created (new / new_ones), populated index *)
(* by index as from_slice does, and then used: one mutating operation      *)
(* (set, apply_inplace, fill) or unchecked iterators over it.              *)
(***************************************************************************)
NoIter == [kind |-> "none", from |-> 0, word_index |-> 0, window |-> 0,
           fill |-> 0, out |-> <<>>, status |-> "ok"]

Op(name, index, value, f) == [name |-> name, index |-> index, value |-> value, f |-> f]

\* Values written by the operations: zero, all ones, a mixed bit pattern.
TestValues(m) == {0, m, BitAnd(165, m)}

\* the reference list and what its last pop returned (-1: None)
Ref(list, popped) == [list |-> list, popped |-> popped]
NoRef == Ref(<<>>, -1)

VecIdle ==
    /\ vec_ref = NoRef
    /\ sink = <<>>
    /\ vec = fill_words(0, 0, 0)
    /\ vec_pre = fill_words(0, 0, 0)
    /\ vec_op = Op("idle", 0, 0, FnNone)
    /\ vec_status = "ok"
    /\ it = NoIter

\* new (zero words) or new_ones (all-ones words)
VecInit ==
    /\ \E bit_width \in 0..WBITS, len \in 0..MaxLen, word \in {0, WMAX} :
           vec = fill_words(bit_width, len, word)
    /\ vec_pre = vec
    /\ vec_ref = NoRef
    /\ sink = <<>>
    /\ vec_op = Op(IF vec.len = 0 THEN "ready" ELSE "populate", 0, 0, FnNone)
    /\ vec_status = "ok"
    /\ it = NoIter

\* from_slice: result.set_unchecked(i, value) for i in 0..len
VecPopulate(value) ==
    /\ vec_op.name = "populate"
    /\ vec' = set_unchecked(vec, vec_op.index, value)
    /\ vec_pre' = vec'
    /\ vec_op' = IF vec_op.index + 1 = vec.len THEN Op("ready", 0, 0, FnNone)
                 ELSE Op("populate", vec_op.index + 1, 0, FnNone)
    /\ UNCHANGED <<vec_status, it, overflow_checks>>

VecSet(index, value) ==
    /\ vec_op.name = "ready" /\ it.kind = "none"
    /\ LET r == set(vec, index, value)
       IN  /\ vec' = r.vec
           /\ vec_status' = r.status
    /\ vec_pre' = vec
    /\ vec_op' = Op("set", index, value, FnNone)
    /\ UNCHANGED <<it, overflow_checks>>

VecApplyInplace(fid) ==
    /\ vec_op.name = "ready" /\ it.kind = "none"
    /\ LET r == apply_inplace(vec, fid, overflow_checks)
       IN  /\ vec' = r.vec
           /\ vec_status' = r.status
    /\ vec_pre' = vec
    /\ vec_op' = Op("apply_inplace", 0, 0, fid)
    /\ UNCHANGED <<it, overflow_checks>>

\* BitFieldVec::fill(bit_width, len, value) builds a new vector
VecFill(bit_width, len, value, uninit) ==
    /\ vec_op.name = "ready" /\ it.kind = "none"
    /\ LET r == fill(bit_width, len, value, uninit, overflow_checks)
       IN  /\ vec' = r.vec
           /\ vec_status' = r.status
    /\ vec_pre' = vec
    /\ vec_op' = Op("fill", 0, value, FnNone)
    /\ UNCHANGED <<it, overflow_checks>>

\* get_unaligned(index); beyond is what lies after the storage
VecGetUnaligned(index, beyond) ==
    /\ vec_op.name = "ready" /\ it.kind = "none"
    /\ LET r == get_unaligned(vec, index, beyond)
       IN  /\ vec_status' = r.status
           /\ vec_op' = Op("get_unaligned", index, r.value, FnNone)
    /\ vec_pre' = vec
    /\ UNCHANGED <<vec, it, overflow_checks>>

\* address_of(index)
VecAddressOf(index) ==
    /\ vec_op.name = "ready" /\ it.kind = "none"
    /\ LET r == address_of(vec, index)
       IN  /\ vec_status' = r.status
           /\ vec_op' = Op("address_of", index, r.value, FnNone)
    /\ vec_pre' = vec
    /\ UNCHANGED <<vec, it, overflow_checks>>

\* v.serialize(&mut file)
VecSerialize ==
    /\ vec_op.name = "ready" /\ it.kind = "none"
    /\ sink' = Serialize_BitFieldVec(vec)
    /\ vec_op' = Op("serialize", 0, 0, FnNone)
    /\ UNCHANGED <<vec, vec_pre, vec_status, it, overflow_checks>>

\* map or load of the file, and the deserialization from its bytes
VecDeserialize(how) ==
    /\ vec_op.name = "serialize"
    /\ LET r == Deserialize_BitFieldVec(IF how = "map" THEN MapBytes(sink)
                                        ELSE LoadBytes(sink))
       IN  /\ vec' = r.vec
           /\ vec_status' = r.status
    /\ vec_pre' = vec
    /\ vec_op' = Op(how, 0, 0, FnNone)
    /\ UNCHANGED <<sink, it, overflow_checks>>

\* into_unchecked_iter_from(from) / into_rev_unchecked_iter_from(from)
IterNew(kind, from) ==
    /\ vec_op.name = "ready" /\ it.kind = "none"
    /\ from <= vec.len
    /\ LET s == IF kind = "fwd" THEN UncheckedIterator_new(vec, from)
                ELSE ReverseUncheckedIterator_new(vec, from)
       IN  it' = [kind |-> kind, from |-> from, word_index |-> s.word_index,
                  window |-> s.window, fill |-> s.fill, out |-> <<>>,
                  status |-> "ok"]
    /\ UNCHANGED <<vec, vec_pre, vec_op, vec_status, overflow_checks>>

\* The number of elements the iterator may still be advanced over.
IterRemaining ==
    IF it.kind = "fwd" THEN vec.len - it.from - Len(it.out)
    ELSE it.from - Len(it.out)

IterNext ==
    /\ it.kind # "none" /\ it.status = "ok"
    /\ IterRemaining > 0
    /\ LET s == IF it.kind = "fwd" THEN UncheckedIterator_next_unchecked(vec, it)
                ELSE ReverseUncheckedIterator_next_unchecked(vec, it)
       IN  it' = IF s.overflow /\ overflow_checks
                 THEN [it EXCEPT !.status = "panicked"]
                 ELSE [it EXCEPT !.word_index = s.word_index, !.window = s.window,
                                 !.fill = s.fill, !.out = Append(@, s.res)]
    /\ UNCHANGED <<vec, vec_pre, vec_op, vec_status, overflow_checks>>

IterDrop ==
    /\ it.kind # "none"
    /\ it' = NoIter
    /\ UNCHANGED <<vec, vec_pre, vec_op, vec_status, overflow_checks>>

(***************************************************************************)
(* BitFieldVecIterator: the double-ended iterator over start..end, a        *)
(* forward and a reverse unchecked iterator with the cursors start and end. *)
(* it.out lists the calls made and what they returned (-1: None).          *)
(***************************************************************************)
MaxNone == 2     \* calls made on an exhausted iterator

\* BitFieldVecIterator::from_range
IterFromRange(start, end) ==
    /\ vec_op.name = "ready" /\ it.kind = "none"
    /\ start <= vec.len /\ end <= vec.len
    /\ it' = [kind |-> "range", from |-> <<start, end>>,
              directed |-> UncheckedIterator_new(vec, start),
              reversed |-> ReverseUncheckedIterator_new(vec, end),
              start |-> start, end |-> end, out |-> <<>>, status |-> "ok"]
    /\ UNCHANGED <<vec, vec_pre, vec_op, vec_status, overflow_checks>>

RangeNones == Cardinality({k \in 1..Len(it.out) : it.out[k].res = -1})

\* Iterator::next
RangeNext ==
    /\ it.kind = "range" /\ it.status = "ok"
    /\ IF it.start >= it.end
       THEN /\ RangeNones < MaxNone
            /\ it' = [it EXCEPT !.out = Append(@, [call |-> "next", res |-> -1])]
       ELSE LET s == UncheckedIterator_next_unchecked(vec, it.directed)
            IN  it' = IF s.overflow /\ overflow_checks
                      THEN [it EXCEPT !.status = "panicked"]
                      ELSE [it EXCEPT
                               !.directed = [word_index |-> s.word_index,
                                             window |-> s.window, fill |-> s.fill],
                               !.start = @ + 1,
                               !.out = Append(@, [call |-> "next", res |-> s.res])]
    /\ UNCHANGED <<vec, vec_pre, vec_op, vec_status, overflow_checks>>

\* DoubleEndedIterator::next_back
RangeNextBack ==
    /\ it.kind = "range" /\ it.status = "ok"
    /\ IF it.start >= it.end
       THEN /\ RangeNones < MaxNone
            /\ it' = [it EXCEPT !.out = Append(@, [call |-> "next_back", res |-> -1])]
       ELSE LET s == ReverseUncheckedIterator_next_unchecked(vec, it.reversed)
            IN  it' = IF s.overflow /\ overflow_checks
                      THEN [it EXCEPT !.status = "panicked"]
                      ELSE [it EXCEPT
                               !.reversed = [word_index |-> s.word_index,
                                             window |-> s.window, fill |-> s.fill],
                               !.end = @ - 1,
                               !.out = Append(@, [call |-> "next_back", res |-> s.res])]
    /\ UNCHANGED <<vec, vec_pre, vec_op, vec_status, overflow_checks>>

\* ExactSizeIterator::len: self.end.saturating_sub(self.start)
RangeLen == Max(it.end - it.start, 0)

\* the atomic vector is not in use
AtomicIdle ==
    /\ avec = fill_words(0, 0, 0)
    /\ athreads = <<>>
    /\ aexpect = <<>>
    /\ acontended = FALSE
    /\ astatus = "ok"

\* no Elias-Fano builder exists
EFIdle ==
    /\ efb = <<>>
    /\ ef_built = FALSE
    /\ ef_xs = <<>>
    /\ ef_op = <<>>

\* Function::new has not been called
FuncIdle ==
    /\ args = <<>> /\ remap = <<>> /\ seed = 0 /\ dup_count = 0
    /\ fpc = "idle" /\ panic_msg = "" /\ sigs = <<>> /\ plan = <<>>
    /\ data = <<>> /\ chunk_ctr = 0 /\ fail = FALSE /\ workers = <<>>
    /\ func = <<>> /\ hist = <<>>

InitVec ==
    /\ overflow_checks \in BOOLEAN
    /\ VecInit
    /\ AtomicIdle
    /\ EFIdle
    /\ FuncIdle

\* The contents an uninitialised allocation may hold: any word.  When fill
\* writes every word of the allocation (len * bit_width > 0) the content
\* does not reach the outcome and one value stands for all.
UninitWords(v) == IF v.len * v.bit_width > 0 THEN {0} ELSE 0..WMAX

NextVecCalls ==
    \/ \E value \in TestValues(vec.mask) : VecPopulate(value)
    \/ \E index \in 0..vec.len,
          value \in TestValues(vec.mask) \cup {Min(vec.mask + 1, WMAX)} :
           VecSet(index, value)
    \/ \E fid \in ApplyFns : VecApplyInplace(fid)
    \/ \E value \in {Min(1, vec.mask), vec.mask}, uninit \in UninitWords(vec) :
           VecFill(vec.bit_width, vec.len, value, uninit)
    \/ \E index \in 0..vec.len, beyond \in {0, WMAX} : VecGetUnaligned(index, beyond)
    \/ \E kind \in {"fwd", "rev"}, from \in 0..vec.len : IterNew(kind, from)
    \/ IterNext
    \/ IterDrop

NextVecOps ==
    \/ VecSerialize
    \/ \E how \in {"map", "load"} : VecDeserialize(how)
    \/ NextVecCalls /\ UNCHANGED sink

NextVec == NextVecOps /\ UNCHANGED <<vec_ref, atomicVars, efVars, funcVars>>

vars == <<overflow_checks, vecVars, atomicVars, efVars, funcVars>>

(***************************************************************************)
(* A Vec<T> written in the middle of a stream and read back as a slice.    *)
(* vec_ref.list is the Vec, vec_op.index the position at which it is       *)
(* written and vec_op.value the size of T; sink is the stream: the bytes   *)
(* before the position, the Vec, and the bytes of a following field.  The  *)
(* file is mapped or loaded at an address aligned for a u64, so the byte   *)
(* at position p has an address congruent to p.  After the read vec.data   *)
(* holds the slice and vec.len the number of bytes consumed.  The bytes    *)
(* before the Vec are 255, the byte after it is 170.                       *)
(***************************************************************************)
MaxPos == 3       \* bytes written before the Vec
MaxItems == 2     \* items of the Vec
ItemSizes == {1, 2, 4}
ItemValues(size) == {0, 1, IF size >= 4 THEN 2^30 + 255 ELSE 256^size - 1}

InitSerdes ==
    /\ overflow_checks \in BOOLEAN
    /\ AtomicIdle /\ EFIdle /\ FuncIdle
    /\ \E size \in ItemSizes, pos \in 0..MaxPos, n \in 0..MaxItems :
           \E items \in [1..n -> ItemValues(size)] :
               /\ vec_ref = Ref(items, -1)
               /\ vec_op = Op("vec", pos, size, FnNone)
               /\ sink = [i \in 1..pos |-> 255]
    /\ vec = fill_words(0, 0, 0) /\ vec_pre = fill_words(0, 0, 0)
    /\ vec_status = "ok"
    /\ it = NoIter

\* self.serialize(&mut backend) at the current stream position, then the
\* next field
SerializeVec ==
    /\ vec_op.name = "vec"
    /\ sink' = sink \o Serialize_Vec_T(vec_ref.list, vec_op.value, Len(sink))
                    \o <<170>>
    /\ vec_op' = [vec_op EXCEPT !.name = "written"]
    /\ UNCHANGED <<vec, vec_pre, vec_status, vec_ref, it, overflow_checks>>

\* <&[T]>::deserialize(&backend[pos..]) on the mapped or loaded file
DeserializeSlice(how) ==
    /\ vec_op.name = "written"
    /\ LET file == IF how = "map" THEN MapBytes(sink) ELSE LoadBytes(sink)
           backend == SubSeq(file, vec_op.index + 1, Len(file))
           r == Deserialize_Slice_T(backend, vec_op.value, vec_op.index)
       IN  /\ vec_status' = IF r.ok THEN "ok" ELSE "panicked"
           /\ vec' = [data |-> r.value, bit_width |-> 8 * vec_op.value,
                      mask |-> 0, len |-> Len(backend) - Len(r.rest)]
    /\ vec_op' = [vec_op EXCEPT !.name = how]
    /\ UNCHANGED <<vec_pre, vec_ref, sink, it, overflow_checks>>

NextSerdes ==
    /\ SerializeVec \/ \E how \in {"map", "load"} : DeserializeSlice(how)
    /\ UNCHANGED <<atomicVars, efVars, funcVars>>

SpecSerdes == InitSerdes /\ [][NextSerdes]_vars

\* the vector is populated, then read: address_of, or the iterator from
\* both ends
NextIter ==
    /\ \/ \E value \in TestValues(vec.mask) : VecPopulate(value)
       \/ \E index \in 0..vec.len : VecAddressOf(index)
       \/ \E start \in 0..vec.len, end \in 0..vec.len : IterFromRange(start, end)
       \/ RangeNext
       \/ RangeNextBack
    /\ UNCHANGED <<sink, vec_ref, atomicVars, efVars, funcVars>>

SpecIter == InitVec /\ [][NextIter]_vars

SpecVec == InitVec /\ [][NextVec]_vars


(***************************************************************************)
(* C2: after set(i, v) with i < len and v <= mask, get(i) = v, every other *)
(* element is unchanged, and len and bit_width are unchanged.              *)
(***************************************************************************)
C2_SetGetFrame ==
    (vec_op.name = "set" /\ vec_status = "ok") =>
        /\ get_unchecked(vec, vec_op.index) = vec_op.value
        /\ \A j \in 0..(vec.len - 1) :
               j # vec_op.index => get_unchecked(vec, j) = get_unchecked(vec_pre, j)
        /\ vec.len = vec_pre.len
        /\ vec.bit_width = vec_pre.bit_width

Straddles(v, index) == ((index * v.bit_width) % WBITS) + v.bit_width > WBITS

\* a set on an element that straddles two words, changing it, next to a
\* non-zero neighbour
C2_Witness ==
    /\ vec_op.name = "set" /\ vec_status = "ok"
    /\ Straddles(vec, vec_op.index)
    /\ vec_op.index >= 1
    /\ get_unchecked(vec_pre, vec_op.index) # vec_op.value
    /\ get_unchecked(vec, vec_op.index - 1) # 0

(***************************************************************************)
(* C3: the forward unchecked iterator started at 0 yields get(0), get(1),  *)
(* ... and the reverse one started at len yields get(len-1), ..., get(0),  *)
(* for every bit_width in 0..=W::BITS.                                     *)
(***************************************************************************)
C3_IterYieldsGet ==
    /\ (it.kind = "fwd" /\ it.from = 0) =>
           /\ it.status = "ok"
           /\ \A k \in 1..Len(it.out) : it.out[k] = get_unchecked(vec, k - 1)
    /\ (it.kind = "rev" /\ it.from = vec.len) =>
           /\ it.status = "ok"
           /\ \A k \in 1..Len(it.out) : it.out[k] = get_unchecked(vec, vec.len - k)

(***************************************************************************)
(* C4: for f whose results fit in bit_width bits, apply_inplace(f)         *)
(* terminates and leaves element i equal to f(old element i), len          *)
(* unchanged; fill(bit_width, len, value) yields a vector with             *)
(* get(i) = value for every i.                                             *)
(***************************************************************************)
C4_ApplyInplaceEquiv ==
    /\ (vec_op.name = "apply_inplace" /\ Unfit(vec_pre, vec_op.f) = {}) =>
           /\ vec_status = "ok"
           /\ vec.len = vec_pre.len
           /\ \A i \in 0..(vec.len - 1) :
                  get_unchecked(vec, i)
                      = ApplyFn(vec_op.f, vec_pre.mask, get_unchecked(vec_pre, i))
    /\ vec_op.name = "fill" =>
           /\ vec_status = "ok"
           /\ \A i \in 0..(vec.len - 1) : get_unchecked(vec, i) = vec_op.value

(***************************************************************************)
(* C12: for every bit width accepted by get_unaligned and every index      *)
(* i < len whose unaligned read stays in the storage, get_unaligned(i)     *)
(* returns get(i).                                                         *)
(***************************************************************************)
C12_UnalignedEqualsGet ==
    (vec_op.name = "get_unaligned" /\ vec_status = "ok") =>
        vec_op.value = get_unchecked(vec, vec_op.index)

(***************************************************************************)
(* C16: a packed vector serialized to a byte sink and reconstructed from   *)
(* those bytes, loaded into owned memory or memory-mapped, has the same    *)
(* len and bit_width and the same get(i) for every i < len.                *)
(***************************************************************************)
C16_SerdesRoundTrip ==
    vec_op.name \in {"map", "load"} =>
        /\ vec_status = "ok"
        /\ vec.len = vec_pre.len
        /\ vec.bit_width = vec_pre.bit_width
        /\ \A i \in 0..(vec.len - 1) : get_unchecked(vec, i) = get_unchecked(vec_pre, i)

\* a vector of three elements over two words, not all equal, loaded into
\* owned memory from a file whose length is no multiple of 8
C16_Witness ==
    /\ vec_op.name = "load" /\ vec_status = "ok"
    /\ vec.len = 3 /\ Len(vec.data) >= 2
    /\ get_unchecked(vec, 1) # get_unchecked(vec, 2)
    /\ Len(sink) % 8 # 0

(***************************************************************************)
(* SpecWide: get_unaligned on a BitFieldVec<W> of a wider word, W::BITS =  *)
(* WideBits, as created by new (all zeros): the bounds check, the          *)
(* assertion on the bit width, and the read, which yields zero from a      *)
(* zeroed storage whatever the shift.                                      *)
(***************************************************************************)
new_wide(bit_width, len) ==
    [data |-> [w \in 1..Max(1, (len * bit_width + WideBits - 1) \div WideBits) |-> 0],
     bit_width |-> bit_width,
     mask |-> 2^bit_width - 1,
     len |-> len]

get_unaligned_wide(v, index) ==
    IF index >= v.len THEN [status |-> "panicked", value |-> 0]
    ELSE IF ~UnalignedAssertion(v.bit_width) THEN [status |-> "panicked", value |-> 0]
    ELSE IF UnalignedInStorage(index, WideBits \div 8, Len(v.data))
    THEN [status |-> "ok", value |-> 0]
    ELSE [status |-> "ub", value |-> 0]

InitWide ==
    /\ overflow_checks \in BOOLEAN
    /\ \E bit_width \in 0..WideBits, len \in 1..MaxLen : vec = new_wide(bit_width, len)
    /\ vec_pre = vec
    /\ vec_ref = NoRef
    /\ sink = <<>>
    /\ vec_op = Op("ready", 0, 0, FnNone)
    /\ vec_status = "ok"
    /\ it = NoIter
    /\ AtomicIdle /\ EFIdle /\ FuncIdle

WideGetUnaligned(index) ==
    /\ vec_op.name = "ready"
    /\ LET r == get_unaligned_wide(vec, index)
       IN  /\ vec_status' = r.status
           /\ vec_op' = Op("get_unaligned", index, r.value, FnNone)
    /\ UNCHANGED <<vec, vec_pre, it, overflow_checks>>

NextWide ==
    /\ \E index \in 0..vec.len : WideGetUnaligned(index)
    /\ UNCHANGED <<vec_ref, sink, atomicVars, efVars, funcVars>>

SpecWide == InitWide /\ [][NextWide]_vars

(***************************************************************************)
(* C13: get_unaligned panics on its assertion, before any read, for every  *)
(* bit width with bit_width % 8 in {3, 5, 6, 7}, and accepts every other   *)
(* bit width, for every bit_width in 0..=W::BITS.                          *)
(***************************************************************************)
C13_UnalignedRejects ==
    (vec_op.name = "get_unaligned" /\ vec_op.index < vec.len) =>
        (vec_status = "panicked" <=> vec.bit_width % 8 \in {3, 5, 6, 7})

(***************************************************************************)
(* The growable vector: with_capacity, push, pop, resize, clear, reset.    *)
(* get_unchecked and set_unchecked index the words without a bounds check: *)
(* an access to a word the storage does not hold is undefined, status      *)
(* "ub".                                                                   *)
(***************************************************************************)
\* data: Vec::with_capacity(n_of_words), a vector of no words
BitFieldVec_with_capacity(bit_width, capacity) ==
    [data |-> <<>>, bit_width |-> bit_width, mask |-> mask(bit_width), len |-> 0]

\* the words get_unchecked / set_unchecked touch for index are in data
InStorage(v, index) ==
    LET pos == index * v.bit_width
        word_index == pos \div WBITS
        bit_index == pos % WBITS
    IN  IF bit_index + v.bit_width <= WBITS
        THEN word_index < Len(v.data)
        ELSE word_index + 1 < Len(v.data)

BitFieldVec_push(v, value) ==
    IF value > v.mask THEN [status |-> "panicked", vec |-> v]
    ELSE LET grown == IF (v.len + 1) * v.bit_width > Len(v.data) * WBITS
                      THEN [v EXCEPT !.data = Append(@, 0)]
                      ELSE v
         IN  IF ~InStorage(grown, v.len) THEN [status |-> "ub", vec |-> grown]
             ELSE [status |-> "ok",
                   vec |-> [set_unchecked(grown, v.len, value) EXCEPT !.len = v.len + 1]]

\* value: -1 for None
BitFieldVec_pop(v) ==
    IF v.len = 0 THEN [status |-> "ok", vec |-> v, value |-> -1]
    ELSE IF ~InStorage(v, v.len - 1) THEN [status |-> "ub", vec |-> v, value |-> -1]
    ELSE [status |-> "ok", vec |-> [v EXCEPT !.len = v.len - 1],
          value |-> get_unchecked(v, v.len - 1)]

RECURSIVE ResizeFill(_, _, _, _)
\* for i in self.len..new_len { set_unchecked(i, value) }
ResizeFill(v, i, new_len, value) ==
    IF i >= new_len THEN [status |-> "ok", vec |-> v]
    ELSE IF ~InStorage(v, i) THEN [status |-> "ub", vec |-> v]
    ELSE ResizeFill(set_unchecked(v, i, value), i + 1, new_len, value)

BitFieldVec_resize(v, new_len, value) ==
    IF value > v.mask THEN [status |-> "panicked", vec |-> v]
    ELSE IF new_len > v.len
    THEN LET n_of_words == (new_len * v.bit_width + WBITS - 1) \div WBITS
             grown == IF new_len * v.bit_width > Len(v.data) * WBITS
                      THEN [v EXCEPT !.data =
                               [w \in 1..n_of_words |->
                                   IF w <= Len(v.data) THEN v.data[w] ELSE 0]]
                      ELSE v
             r == ResizeFill(grown, v.len, new_len, value)
         IN  [r EXCEPT !.vec.len = IF r.status = "ok" THEN new_len ELSE @]
    ELSE [status |-> "ok", vec |-> [v EXCEPT !.len = new_len]]

BitFieldVec_clear(v) == [v EXCEPT !.data = <<>>, !.len = 0]

BitFieldVec_reset(v) == [v EXCEPT !.data = [w \in DOMAIN v.data |-> 0]]

BitFieldVec_reset_ones(v) == [v EXCEPT !.data = [w \in DOMAIN v.data |-> WMAX]]

\* unsafe set_len: the debug_assert is compiled with the overflow checks
BitFieldVec_set_len(v, len, checks) ==
    IF checks /\ len * v.bit_width > Len(v.data) * WBITS
    THEN [status |-> "panicked", vec |-> v]
    ELSE [status |-> "ok", vec |-> [v EXCEPT !.len = len]]

\* the same operations on the reference list
RefPush(r, value) == Ref(Append(r.list, value), -1)
RefPop(r) ==
    IF r.list = <<>> THEN Ref(r.list, -1)
    ELSE Ref(SubSeq(r.list, 1, Len(r.list) - 1), r.list[Len(r.list)])
RefResize(r, new_len, value) ==
    Ref([i \in 1..new_len |-> IF i <= Len(r.list) THEN r.list[i] ELSE value], -1)
RefClear == Ref(<<>>, -1)

(***************************************************************************)
(* SpecGrow: a BitFieldVec<u8> created by new or with_capacity, then any   *)
(* sequence of push, pop, resize, clear, reset, reset_ones, set and the     *)
(* unsafe set_len, next to the reference list.                             *)
(***************************************************************************)
InitGrow ==
    /\ overflow_checks \in BOOLEAN
    /\ \E bit_width \in 0..WBITS :
           \/ \E len \in 0..MaxLen :
                  /\ vec = fill_words(bit_width, len, 0)
                  /\ vec_ref = Ref([i \in 1..len |-> 0], -1)
                  /\ vec_op = Op("new", 0, 0, FnNone)
           \/ \E capacity \in 0..MaxLen :
                  /\ vec = BitFieldVec_with_capacity(bit_width, capacity)
                  /\ vec_ref = NoRef
                  /\ vec_op = Op("with_capacity", capacity, 0, FnNone)
    /\ vec_pre = vec
    /\ vec_status = "ok"
    /\ sink = <<>>
    /\ it = NoIter
    /\ AtomicIdle /\ EFIdle /\ FuncIdle

\* a call whose result is r, on the vector and on the reference list
GrowCall(name, index, value, r, ref) ==
    /\ vec_status = "ok"
    /\ vec' = r.vec
    /\ vec_status' = r.status
    /\ vec_ref' = IF r.status = "ok" THEN ref ELSE vec_ref
    /\ vec_pre' = vec
    /\ vec_op' = Op(name, index, value, FnNone)
    /\ UNCHANGED <<it, overflow_checks>>

GrowPush(value) ==
    /\ vec.len < MaxLen
    /\ GrowCall("push", vec.len, value, BitFieldVec_push(vec, value),
                RefPush(vec_ref, value))

GrowPop ==
    LET r == BitFieldVec_pop(vec)
    IN  GrowCall("pop", 0, r.value, [status |-> r.status, vec |-> r.vec],
                 RefPop(vec_ref))

GrowResize(new_len, value) ==
    GrowCall("resize", new_len, value, BitFieldVec_resize(vec, new_len, value),
             RefResize(vec_ref, new_len, value))

GrowClear ==
    GrowCall("clear", 0, 0, [status |-> "ok", vec |-> BitFieldVec_clear(vec)], RefClear)

GrowReset ==
    GrowCall("reset", 0, 0, [status |-> "ok", vec |-> BitFieldVec_reset(vec)],
             Ref([i \in 1..Len(vec_ref.list) |-> 0], -1))

\* every element reads as the mask
GrowResetOnes ==
    GrowCall("reset_ones", 0, 0,
             [status |-> "ok", vec |-> BitFieldVec_reset_ones(vec)],
             Ref([i \in 1..Len(vec_ref.list) |-> vec.mask], -1))

\* the list is read again from the storage when the new length lies in it
GrowSetLen(len) ==
    LET r == BitFieldVec_set_len(vec, len, overflow_checks)
    IN  GrowCall("set_len", len, 0, r,
                 IF \A i \in 0..(r.vec.len - 1) : InStorage(r.vec, i)
                 THEN Ref(Elements(r.vec), -1) ELSE vec_ref)

GrowSet(index, value) ==
    GrowCall("set", index, value,
             IF index < vec.len /\ value <= vec.mask /\ ~InStorage(vec, index)
             THEN [status |-> "ub", vec |-> vec]
             ELSE set(vec, index, value),
             Ref([vec_ref.list EXCEPT ![index + 1] = value], -1))

NextGrow ==
    /\ \/ \E value \in TestValues(vec.mask) \cup {Min(vec.mask + 1, WMAX)} :
              GrowPush(value)
       \/ GrowPop
       \/ \E new_len \in 0..MaxLen, value \in {0, vec.mask} : GrowResize(new_len, value)
       \/ GrowClear
       \/ GrowReset
       \/ GrowResetOnes
       \/ \E len \in 0..MaxLen : GrowSetLen(len)
       \/ \E index \in 0..vec.len, value \in {0, vec.mask} : GrowSet(index, value)
    /\ UNCHANGED <<sink, atomicVars, efVars, funcVars>>

SpecGrow == InitGrow /\ [][NextGrow]_vars

\* every element of the vector lies in the storage
AllInStorage(v) == \A i \in 0..(v.len - 1) : InStorage(v, i)

(***************************************************************************)
(* C14: in every state reachable through new / with_capacity and push,     *)
(* pop, resize, clear, reset, set, the storage holds at least one word and *)
(* at least len * bit_width bits, so that get and set on an index < len,   *)
(* bit_width = 0 included, never touch a word outside the storage.         *)
(***************************************************************************)
C14_StorageInvariant ==
    /\ vec_status # "ub"
    /\ Len(vec.data) >= 1
    /\ Len(vec.data) * WBITS >= vec.len * vec.bit_width
    /\ AllInStorage(vec)

(***************************************************************************)
(* C15: after any sequence of push, pop, resize and clear on a vector      *)
(* created by new or with_capacity, for every bit_width in 0..=W::BITS,    *)
(* len() and get(i) agree with the reference list: push appends, pop       *)
(* removes and returns the last element (None on empty, the vector         *)
(* unchanged), resize truncates or extends with copies of the value, clear *)
(* empties.                                                                *)
(***************************************************************************)
C15_ListRefinement ==
    /\ vec_status # "ub"
    /\ vec_status = "ok" =>
           /\ vec.len = Len(vec_ref.list)
           /\ AllInStorage(vec)
           /\ Elements(vec) = vec_ref.list
    /\ (vec_op.name = "pop" /\ vec_status = "ok") =>
           /\ vec_op.value = vec_ref.popped
           /\ vec_ref.popped = -1 => vec = vec_pre

(***************************************************************************)
(* AtomicBitFieldVec<u8>: set_atomic_unchecked as a sequence of atomic     *)
(* loads and compare_exchange operations on the words.                     *)
(***************************************************************************)
get_atomic_unchecked(v, index) ==
    LET pos == index * v.bit_width
        word_index == pos \div WBITS
        bit_index == pos % WBITS
    IN  IF bit_index + v.bit_width <= WBITS
        THEN BitAnd(Shr(Word(v, word_index), bit_index), v.mask)
        ELSE BitAnd(BitOr(Shr(Word(v, word_index), bit_index),
                          Shl(Word(v, word_index + 1), WBITS - bit_index)),
                    v.mask)

\* compare_exchange with a plausible slip: a plain store of the new word
compare_exchange_store(words, word_index, current, new) ==
    [ok |-> TRUE, data |-> [words EXCEPT ![word_index + 1] = new], word |-> new]

\* AtomicType::compare_exchange(current, new): Ok, or Err(e) with the word seen
compare_exchange(words, word_index, current, new) ==
    IF words[word_index + 1] = current
    THEN [ok |-> TRUE, data |-> [words EXCEPT ![word_index + 1] = new], word |-> new]
    ELSE [ok |-> FALSE, data |-> words, word |-> words[word_index + 1]]

\* the new word of the single-word branch
SetAtomicNew(v, bit_index, value, current) ==
    BitOr(BitAnd(current, BitNot(Shl(v.mask, bit_index))), Shl(value, bit_index))

\* the new first word of a straddling element
SetAtomicNewLow(v, bit_index, value, word) ==
    BitOr(BitAnd(word, Shl(1, bit_index) - 1), Shl(value, bit_index))

\* the second word with a plausible slip: the element's old bits are not cleared
SetAtomicNewHigh_stale(v, bit_index, value, word) ==
    BitOr(word, Shr(value, WBITS - bit_index))

\* the new second word of a straddling element
SetAtomicNewHigh(v, bit_index, value, word) ==
    BitOr(BitAnd(word, BitNot(Shr(v.mask, WBITS - bit_index))),
          Shr(value, WBITS - bit_index))

Threads == 1..NThreads

\* Exclusive index sets: index i belongs to thread (i mod NThreads) + 1, so
\* that neighbouring fields of a word belong to different threads.
OwnerOf(index) == (index % NThreads) + 1
OwnedBy(t) == {i \in 0..(avec.len - 1) : OwnerOf(i) = t}

\* a thread alternates between writing its id and the complement of its id
ValueOf(t, writes, m) == IF writes % 2 = 0 THEN BitAnd(t, m) ELSE BitAnd(BitNot(t), m)

IdleThread(n) == [pc |-> "idle", index |-> 0, value |-> 0, word |-> 0, writes |-> n]

\* AtomicBitFieldVec::fill_words(bit_width, len, word): new or new_ones
InitAtomic ==
    /\ overflow_checks \in BOOLEAN
    /\ VecIdle
    /\ EFIdle
    /\ FuncIdle
    /\ \E bit_width \in 0..(WBITS - 1), word \in {0, WMAX} :
           avec = fill_words(bit_width, MaxLen, word)
    /\ athreads = [t \in Threads |-> IdleThread(0)]
    /\ aexpect = [i \in 1..avec.len |-> get_atomic_unchecked(avec, i - 1)]
    /\ acontended = FALSE
    /\ astatus = "ok"

WordIndex(index) == (index * avec.bit_width) \div WBITS
BitIndex(index) == (index * avec.bit_width) % WBITS

\* set_atomic(index, value): the call and its first load.  On an index
\* that set_len has put beyond the storage the load is out of bounds.
SetAtomicCall(t, index, value) ==
    /\ athreads[t].pc = "idle"
    /\ athreads[t].writes < MaxWrites
    /\ IF InStorage(avec, index)
       THEN /\ athreads' = [athreads EXCEPT ![t] =
                   [pc |-> IF BitIndex(index) + avec.bit_width <= WBITS
                           THEN "cas" ELSE "cas_low",
                    index |-> index, value |-> value,
                    word |-> Word(avec, WordIndex(index)),
                    writes |-> @.writes + 1]]
            /\ aexpect' = [aexpect EXCEPT ![index + 1] = value]
            /\ UNCHANGED astatus
       ELSE /\ astatus' = "ub"
            /\ UNCHANGED <<athreads, aexpect>>
    /\ UNCHANGED <<avec, acontended>>

\* one iteration of the compare_exchange loop of the single-word branch
SetAtomicCas(t) ==
    LET th == athreads[t]
        r == compare_exchange(avec.data, WordIndex(th.index), th.word,
                 SetAtomicNew(avec, BitIndex(th.index), th.value, th.word))
    IN  /\ th.pc = "cas"
        /\ avec' = [avec EXCEPT !.data = r.data]
        /\ athreads' = [athreads EXCEPT ![t] =
               IF r.ok THEN IdleThread(th.writes) ELSE [th EXCEPT !.word = r.word]]
        /\ acontended' = (acontended \/ ~r.ok)
        /\ UNCHANGED <<aexpect, astatus>>

\* one iteration of the first loop of the straddling branch (word_index)
SetAtomicCasLow(t) ==
    LET th == athreads[t]
        r == compare_exchange(avec.data, WordIndex(th.index), th.word,
                 SetAtomicNewLow(avec, BitIndex(th.index), th.value, th.word))
    IN  /\ th.pc = "cas_low"
        /\ avec' = [avec EXCEPT !.data = r.data]
        /\ athreads' = [athreads EXCEPT ![t] =
               IF r.ok THEN [th EXCEPT !.pc = "load_high"] ELSE [th EXCEPT !.word = r.word]]
        /\ acontended' = (acontended \/ ~r.ok)
        /\ UNCHANGED <<aexpect, astatus>>

\* the load of word_index + 1
SetAtomicLoadHigh(t) ==
    LET th == athreads[t]
    IN  /\ th.pc = "load_high"
        /\ athreads' = [athreads EXCEPT ![t] =
               [th EXCEPT !.pc = "cas_high",
                          !.word = Word(avec, WordIndex(th.index) + 1)]]
        /\ UNCHANGED <<avec, aexpect, acontended, astatus>>

\* one iteration of the second loop of the straddling branch (word_index + 1)
SetAtomicCasHigh(t) ==
    LET th == athreads[t]
        r == compare_exchange(avec.data, WordIndex(th.index) + 1, th.word,
                 SetAtomicNewHigh(avec, BitIndex(th.index), th.value, th.word))
    IN  /\ th.pc = "cas_high"
        /\ avec' = [avec EXCEPT !.data = r.data]
        /\ athreads' = [athreads EXCEPT ![t] =
               IF r.ok THEN IdleThread(th.writes) ELSE [th EXCEPT !.word = r.word]]
        /\ acontended' = (acontended \/ ~r.ok)
        /\ UNCHANGED <<aexpect, astatus>>

\* set_atomic_unchecked on a vector no other thread is writing: every
\* compare_exchange succeeds at its first attempt
set_atomic_unchecked(v, index, value) ==
    LET pos == index * v.bit_width
        word_index == pos \div WBITS
        bit_index == pos % WBITS
    IN  IF bit_index + v.bit_width <= WBITS
        THEN [v EXCEPT !.data[word_index + 1] =
                 SetAtomicNew(v, bit_index, value, Word(v, word_index))]
        ELSE [v EXCEPT !.data[word_index + 1] =
                 SetAtomicNewLow(v, bit_index, value, Word(v, word_index)),
                       !.data[word_index + 2] =
                 SetAtomicNewHigh(v, bit_index, value, Word(v, word_index + 1))]

RECURSIVE ResetAtomicFrom(_, _)
\* for idx in idx..self.len() { set_atomic_unchecked(idx, 0) }
ResetAtomicFrom(v, idx) ==
    IF idx >= v.len THEN v
    ELSE ResetAtomicFrom(set_atomic_unchecked(v, idx, 0), idx + 1)

reset_atomic(v) == ResetAtomicFrom(v, 0)

\* the elements of the vector, -1 for an element beyond the storage
AtomicElements(v) ==
    [i \in 1..v.len |-> IF InStorage(v, i - 1) THEN get_atomic_unchecked(v, i - 1)
                        ELSE -1]

\* an operation that takes the vector by &mut: no set_atomic is in progress.
\* expect holds the values the caller expects of the indices afterwards.
AtomicMutCall(r, expect) ==
    /\ \A t \in Threads : athreads[t].pc = "idle"
    /\ avec' = r.vec
    /\ astatus' = r.status
    /\ aexpect' = IF r.status = "ok" THEN expect ELSE aexpect
    /\ UNCHANGED <<athreads, acontended>>

\* every element is zeroed in turn; on an element that set_len has put
\* beyond the storage set_atomic_unchecked is out of bounds
ResetAtomic ==
    AtomicMutCall(IF \A i \in 0..(avec.len - 1) : InStorage(avec, i)
                  THEN [status |-> "ok", vec |-> reset_atomic(avec)]
                  ELSE [status |-> "ub", vec |-> avec],
                  [i \in 1..avec.len |-> 0])

\* AtomicBitFieldVec::reset: every word stored as 0
AtomicReset ==
    AtomicMutCall([status |-> "ok", vec |-> BitFieldVec_reset(avec)],
                  [i \in 1..avec.len |-> 0])

\* AtomicBitFieldVec::reset_ones: every word stored as !0
AtomicResetOnes ==
    AtomicMutCall([status |-> "ok", vec |-> BitFieldVec_reset_ones(avec)],
                  [i \in 1..avec.len |-> avec.mask])

\* AtomicBitFieldVec::clear: data.clear() and len = 0
AtomicClear == AtomicMutCall([status |-> "ok", vec |-> BitFieldVec_clear(avec)], <<>>)

\* AtomicBitFieldVec::set_len (unsafe), with its debug_assert; the indices
\* it uncovers hold what the storage holds
AtomicSetLen(len) ==
    LET r == BitFieldVec_set_len(avec, len, overflow_checks)
    IN  AtomicMutCall(r, AtomicElements(r.vec))

NextAtomic ==
    /\ astatus = "ok"
    /\ \/ \E t \in Threads :
              \/ \E index \in OwnedBy(t) :
                     SetAtomicCall(t, index, ValueOf(t, athreads[t].writes, avec.mask))
              \/ SetAtomicCas(t)
              \/ SetAtomicCasLow(t)
              \/ SetAtomicLoadHigh(t)
              \/ SetAtomicCasHigh(t)
       \/ ResetAtomic
       \/ AtomicReset
       \/ AtomicResetOnes
       \/ AtomicClear
       \/ \E len \in {0, MaxLen} : AtomicSetLen(len)
    /\ UNCHANGED <<overflow_checks, vecVars, efVars, funcVars>>

SpecAtomic == InitAtomic /\ [][NextAtomic]_vars

AllJoined == \A t \in Threads : athreads[t].pc = "idle"

RECURSIVE FloorLog2(_)
\* (x as f64).log2().floor() for x >= 1
FloorLog2(x) == IF x <= 1 THEN 0 ELSE 1 + FloorLog2(x \div 2)

\* Bitmap::new(len): len zero bits
Bitmap_new(len) == [i \in 1..len |-> 0]

\* CompactArray::new(bit_width, len): len zero fields
CompactArray_new(bit_width, len) == [i \in 1..len |-> 0]

RECURSIVE SelectFrom(_, _, _)
\* position of the one of the given rank at or after pos (Len + 1 if none)
SelectFrom(bits, rank, pos) ==
    IF pos > Len(bits) THEN pos
    ELSE IF bits[pos] = 1
         THEN IF rank = 0 THEN pos ELSE SelectFrom(bits, rank - 1, pos + 1)
         ELSE SelectFrom(bits, rank, pos + 1)

\* Select::select_unchecked(rank): 0-based position of the one of that rank
select_unchecked(bits, rank) == SelectFrom(bits, rank, 1) - 1

EliasFanoBuilder_new(u, n) ==
    LET l == IF u >= n THEN FloorLog2(u \div n) ELSE 0
    IN  [u |-> u, n |-> n, l |-> l,
         low_bits |-> CompactArray_new(l, n),
         high_bits |-> Bitmap_new(n + (u \div 2^l) + 1),
         last_value |-> 0,
         count |-> 0]

RECURSIVE CeilLog2Ratio(_, _, _)
\* (u as f64 / n as f64).log2().ceil() as usize, from k upwards: the least
\* k with u <= n * 2^k; the cast of a negative or infinite value gives 0
CeilLog2Ratio(u, n, k) ==
    IF u <= n * 2^k THEN k ELSE CeilLog2Ratio(u, n, k + 1)

\* EliasFanoBuilder::mem_upperbound
mem_upperbound(u, n) == 2 * n + (n * CeilLog2Ratio(u, n, 0))

\* push_unchecked with a plausible slip: the unary code loses the + count
push_unchecked_no_count(b, value) ==
    LET low == value % 2^b.l
        high == value \div 2^b.l
    IN  [b EXCEPT !.low_bits[b.count + 1] = low,
                  !.high_bits[high + 1] = 1,
                  !.count = b.count + 1,
                  !.last_value = value]

\* EliasFanoBuilder::push_unchecked, for count < n and value <= u
push_unchecked(b, value) ==
    LET low == value % 2^b.l
        high == (value \div 2^b.l) + b.count
    IN  [b EXCEPT !.low_bits[b.count + 1] = low,
                  !.high_bits[high + 1] = 1,
                  !.count = b.count + 1,
                  !.last_value = value]

\* push with a plausible slip: last_value is recorded before the check
push_records_first(b, value) ==
    IF value < b.last_value
    THEN [result |-> "err", b |-> [b EXCEPT !.last_value = value]]
    ELSE IF b.count >= b.n
         THEN [result |-> "panic", b |-> b]
         ELSE [result |-> "ok", b |-> push_unchecked(b, value)]

\* EliasFanoBuilder::push: Err on a non-monotone value; low_bits.set panics
\* (index out of bounds) when already n values were pushed
push(b, value) ==
    IF value < b.last_value
    THEN [result |-> "err", b |-> b]
    ELSE IF b.count >= b.n
         THEN [result |-> "panic", b |-> b]
         ELSE [result |-> "ok", b |-> push_unchecked(b, value)]

\* EliasFano::get_unchecked(index)
EliasFano_get_unchecked(ef, index) ==
    LET high_bits == select_unchecked(ef.high_bits, index) - index
        low_bits == ef.low_bits[index + 1]
    IN  (high_bits * 2^ef.l) + low_bits

NoPush == [name |-> "new", value |-> 0, result |-> "ok", pre |-> <<>>,
           after_reject |-> FALSE]

InitEF ==
    /\ overflow_checks = FALSE
    /\ VecIdle
    /\ AtomicIdle
    /\ FuncIdle
    /\ \E u \in 0..MaxU, n \in 1..MaxLen : efb = EliasFanoBuilder_new(u, n)
    /\ ef_built = FALSE
    /\ ef_xs = <<>>
    /\ ef_op = NoPush

EFPush(value) ==
    LET r == push(efb, value)
    IN  /\ ~ef_built
        /\ ef_op.result # "panic"
        /\ efb' = r.b
        /\ ef_xs' = IF r.result = "ok" THEN Append(ef_xs, value) ELSE ef_xs
        /\ ef_op' = [name |-> "push", value |-> value, result |-> r.result,
                     pre |-> efb,
                     after_reject |-> (ef_op.after_reject \/ ef_op.result = "err")]
        /\ UNCHANGED ef_built

\* EliasFanoBuilder::build: the bitmap gets its count of ones, n
EFBuild ==
    /\ ~ef_built
    /\ ef_op.result # "panic"
    /\ ef_built' = TRUE
    /\ UNCHANGED <<efb, ef_xs, ef_op>>

NextEF ==
    /\ \/ \E value \in 0..efb.u : EFPush(value)
       \/ EFBuild
    /\ UNCHANGED <<overflow_checks, vecVars, atomicVars, funcVars>>

SpecEF == InitEF /\ [][NextEF]_vars

(***************************************************************************)
(* EliasFanoAtomicBuilder: threads call set(index, xs[index]) once per     *)
(* index.  The low bits are an atomic packed vector (avec), written by     *)
(* set_atomic_unchecked one atomic access at a time; the bit of the high   *)
(* bits is set atomically.  efb holds u, n, l and the bitmap, ef_xs the    *)
(* values and ef_op the indices already taken by a thread.                 *)
(***************************************************************************)
EliasFanoAtomicBuilder_new(u, n) ==
    LET l == IF u >= n THEN FloorLog2(u \div n) ELSE 0
    IN  [u |-> u, n |-> n, l |-> l,
         high_bits |-> Bitmap_new(n + (u \div 2^l) + 1)]

\* the low bits with a plausible slip: the value is not masked
AtomicLow_unmasked(l, value) == value % 2^WBITS

\* set: let low = value & ((1 << self.l) - 1)
AtomicLow(l, value) == value % 2^l

\* set: let high = (value >> self.l) + index
AtomicHigh(l, index, value) == (value \div 2^l) + index

\* the upper bounds u of the builders: below, at and above n, the largest,
\* and one whose low bits straddle two words
AtomicUpperBounds == {0, 1, MaxLen - 1, MaxLen, 2 * MaxLen, MaxU, MaxLen * 2^3}

\* the values given to set: the least, the greatest, and those around a
\* change of the high part
AtomicValues(b) == {0, 2^b.l - 1, 2^b.l, b.u} \cap 0..b.u

Monotone(xs) == \A i \in 1..(Len(xs) - 1) : xs[i] <= xs[i + 1]

InitEFAtomic ==
    /\ overflow_checks = FALSE
    /\ VecIdle
    /\ FuncIdle
    /\ \E u \in AtomicUpperBounds, n \in 1..MaxLen :
           /\ efb = EliasFanoAtomicBuilder_new(u, n)
           /\ avec = fill_words(efb.l, n, 0)
           /\ ef_xs \in [1..n -> AtomicValues(efb)]
           /\ Monotone(ef_xs)
    /\ ef_built = FALSE
    /\ ef_op = [name |-> "set", taken |-> {}]
    /\ athreads = [t \in Threads |-> IdleThread(0)]
    /\ aexpect = <<>>
    /\ acontended = FALSE
    /\ astatus = "ok"

\* set(index, value, order) up to the first load of set_atomic_unchecked
AtomicSetCall(t, index) ==
    /\ ~ef_built
    /\ athreads[t].pc = "idle"
    /\ index \notin ef_op.taken
    /\ ef_op' = [ef_op EXCEPT !.taken = @ \cup {index}]
    /\ athreads' = [athreads EXCEPT ![t] =
           [pc |-> IF BitIndex(index) + avec.bit_width <= WBITS THEN "cas" ELSE "cas_low",
            index |-> index, value |-> ef_xs[index + 1],
            word |-> Word(avec, WordIndex(index)),
            writes |-> @.writes + 1]]
    /\ UNCHANGED <<avec, acontended, efb, ef_built>>

\* one atomic access of low_bits.set_atomic_unchecked(index, low, order)
AtomicSetLow(t) ==
    LET th == athreads[t]
        low == AtomicLow(efb.l, th.value)
        word_index == IF th.pc = "cas_high" THEN WordIndex(th.index) + 1
                      ELSE WordIndex(th.index)
        new == IF th.pc = "cas" THEN SetAtomicNew(avec, BitIndex(th.index), low, th.word)
               ELSE IF th.pc = "cas_low"
                    THEN SetAtomicNewLow(avec, BitIndex(th.index), low, th.word)
                    ELSE SetAtomicNewHigh(avec, BitIndex(th.index), low, th.word)
        r == compare_exchange(avec.data, word_index, th.word, new)
    IN  /\ th.pc \in {"cas", "cas_low", "load_high", "cas_high"}
        /\ IF th.pc = "load_high"
           THEN /\ athreads' = [athreads EXCEPT ![t] =
                       [th EXCEPT !.pc = "cas_high",
                                  !.word = Word(avec, WordIndex(th.index) + 1)]]
                /\ UNCHANGED <<avec, acontended>>
           ELSE /\ avec' = [avec EXCEPT !.data = r.data]
                /\ athreads' = [athreads EXCEPT ![t] =
                       IF ~r.ok THEN [th EXCEPT !.word = r.word]
                       ELSE [th EXCEPT !.pc = IF th.pc = "cas_low" THEN "load_high"
                                              ELSE "high"]]
                /\ acontended' = (acontended \/ ~r.ok)
        /\ UNCHANGED <<efb, ef_op, ef_built>>

\* high_bits.set_atomic_unchecked(high, 1, order), and the return of set
AtomicSetHigh(t) ==
    LET th == athreads[t]
    IN  /\ th.pc = "high"
        /\ efb' = [efb EXCEPT !.high_bits[AtomicHigh(efb.l, th.index, th.value) + 1] = 1]
        /\ athreads' = [athreads EXCEPT ![t] = IdleThread(th.writes)]
        /\ UNCHANGED <<avec, acontended, ef_op, ef_built>>

\* EliasFanoAtomicBuilder::build, after the threads have been joined
AtomicBuild ==
    /\ ~ef_built
    /\ \A t \in Threads : athreads[t].pc = "idle"
    /\ ef_built' = TRUE
    /\ efb' = [u |-> efb.u, n |-> efb.n, l |-> efb.l,
               low_bits |-> [i \in 1..avec.len |-> get_atomic_unchecked(avec, i - 1)],
               high_bits |-> efb.high_bits]
    /\ UNCHANGED <<avec, athreads, acontended, ef_op>>

NextEFAtomic ==
    /\ \/ \E t \in Threads, index \in 0..(efb.n - 1) : AtomicSetCall(t, index)
       \/ \E t \in Threads : AtomicSetLow(t)
       \/ \E t \in Threads : AtomicSetHigh(t)
       \/ AtomicBuild
    /\ UNCHANGED <<overflow_checks, vecVars, funcVars, ef_xs, aexpect, astatus>>

SpecEFAtomic == InitEFAtomic /\ [][NextEFAtomic]_vars

RECURSIVE PushAll(_, _)
\* the sequential builder after pushing the values of xs in order
PushAll(b, xs) ==
    IF xs = <<>> THEN b ELSE PushAll(push(b, Head(xs)).b, Tail(xs))

\* EliasFanoBuilder::build of the sequential builder
EliasFanoBuilder_build(b) ==
    [u |-> b.u, n |-> b.n, l |-> b.l, low_bits |-> b.low_bits, high_bits |-> b.high_bits]

(***************************************************************************)
(* C19: when set(i, xs[i]) has been called exactly once for every index by *)
(* concurrent threads, in any order and interleaving, build() yields the   *)
(* structure that the sequential builder yields for the pushes of xs in    *)
(* order.                                                                  *)
(***************************************************************************)
C19_AtomicBuilderEqualsSequential ==
    (ef_built /\ ef_op.taken = 0..(efb.n - 1)) =>
        efb = EliasFanoBuilder_build(PushAll(EliasFanoBuilder_new(efb.u, efb.n), ef_xs))

\* three values with different low bits set by two threads out of order,
\* with a failed compare_exchange and an element over two words
C19_Witness ==
    /\ ef_built /\ ef_op.taken = 0..(efb.n - 1) /\ efb.n = 3
    /\ acontended
    /\ \E i \in 0..(avec.len - 1) : Straddles(avec, i) /\ efb.low_bits[i + 1] # 0
    /\ efb.low_bits[1] # efb.low_bits[2]
    /\ \A t \in Threads : athreads[t].writes >= 1

\* the bits the builder holds: n fields of l bits and the bitmap
AllocatedBits(b) == Len(b.low_bits) * b.l + Len(b.high_bits)

(***************************************************************************)
(* C18: for every u >= n >= 1 the bits allocated by the builder,           *)
(* n * l + n + (u >> l) + 1 with l = floor(log2(u / n)), are at most       *)
(* mem_upperbound(u, n) = 2 * n + n * ceil(log2(u / n)).                   *)
(***************************************************************************)
C18_MemUpperBound ==
    efb.u >= efb.n =>
        /\ AllocatedBits(efb) = efb.n * efb.l + efb.n + (efb.u \div 2^efb.l) + 1
        /\ AllocatedBits(efb) <= mem_upperbound(efb.u, efb.n)

\* the position of the one set for the i-th accepted value
HighPosition(i) == (ef_xs[i + 1] \div 2^efb.l) + i

(***************************************************************************)
(* C7: an EliasFanoBuilder::new(u, n), n >= 1, that received n monotone    *)
(* values xs[i] <= u and was built yields get(i) = xs[i] for every i < n;  *)
(* the high-bit positions (xs[i] >> l) + i are strictly increasing and     *)
(* below the bitmap size n + (u >> l) + 1.                                 *)
(***************************************************************************)
C7_EliasFanoGet ==
    /\ \A i \in 0..(Len(ef_xs) - 1) :
           /\ HighPosition(i) < efb.n + (efb.u \div 2^efb.l) + 1
           /\ HighPosition(i) < Len(efb.high_bits)
           /\ i > 0 => HighPosition(i - 1) < HighPosition(i)
    /\ (ef_built /\ Len(ef_xs) = efb.n) =>
           \A i \in 0..(efb.n - 1) : EliasFano_get_unchecked(efb, i) = ef_xs[i + 1]

\* a built sequence with low bits, a repeated value and the value u
C7_Witness ==
    /\ ef_built /\ Len(ef_xs) = efb.n
    /\ efb.n >= 3 /\ efb.l >= 1
    /\ ef_xs[1] = ef_xs[2] /\ ef_xs[1] % 2 = 1
    /\ ef_xs[efb.n] = efb.u

RECURSIVE Replay(_, _)
\* the builder after push_unchecked of the given values
Replay(b, xs) ==
    IF xs = <<>> THEN b ELSE Replay(push_unchecked(b, Head(xs)), Tail(xs))

(***************************************************************************)
(* C8: push(value) with value smaller than the last pushed value returns   *)
(* an error and leaves count, last_value, low bits and high bits as they   *)
(* were, so the builder is always the one obtained from the accepted       *)
(* pushes alone; a push equal to the last value is accepted.               *)
(***************************************************************************)
C8_RejectedPushNoEffect ==
    ef_op.name = "push" =>
        /\ ef_op.value < ef_op.pre.last_value =>
               (ef_op.result = "err" /\ efb = ef_op.pre)
        /\ (ef_op.value = ef_op.pre.last_value /\ ef_op.pre.count < efb.n) =>
               (ef_op.result = "ok" /\ efb.count = ef_op.pre.count + 1)
        /\ efb = Replay(EliasFanoBuilder_new(efb.u, efb.n), ef_xs)

\* a push equal to the last value is accepted after an earlier push was rejected
C8_Witness ==
    /\ ef_op.name = "push" /\ ef_op.result = "ok" /\ ef_op.after_reject
    /\ ef_op.value = ef_op.pre.last_value
    /\ ef_op.value > 0
    /\ efb.count = efb.n

(***************************************************************************)
(* Retrieval function (examples/func.rs).                                  *)
(*                                                                         *)
(* A 128-bit signature [u64; 2] is the tuple <<hi0, lo0, hi1, lo1>> of the *)
(* top HalfTop bits of its four 32-bit halves, the other bits being zero:  *)
(* sig[0] = (hi0 * 2^32 + lo0) * 2^(32 - HalfTop), and likewise sig[1].    *)
(* The order of the tuples is the order of the arrays.                     *)
(***************************************************************************)
Quarter(k) == k * 2^(HalfTop - 2)

\* the signatures remap can return, each half a multiple of 2^30
SigTable ==
    << <<Quarter(0), Quarter(0), Quarter(0), Quarter(0)>>,
       <<Quarter(0), Quarter(0), Quarter(2), Quarter(0)>>,
       <<Quarter(1), Quarter(2), Quarter(0), Quarter(2)>>,
       <<Quarter(2), Quarter(0), Quarter(0), Quarter(0)>>,
       <<Quarter(3), Quarter(2), Quarter(2), Quarter(2)>>,
       <<Quarter(1), Quarter(1), Quarter(3), Quarter(3)>> >>

Sigs == {SigTable[i] : i \in 1..Len(SigTable)}

\* (sig[0] >> 32) & mask32, (sig[0] & 0xFFFFFFFF), ... scaled by 2^(32 - HalfTop)
Hi0(sig) == sig[1]
Lo0(sig) == sig[2]
Hi1(sig) == sig[3]
Lo1(sig) == sig[4]
\* a signature may carry a fifth component, the bits of sig[0] >> 32 below
\* its top HalfTop bits; the signatures of SigTable have none set
Low0(sig) == IF Len(sig) = 5 THEN sig[5] ELSE 0

PARAMS ==
    << <<0, 1, 123>>, <<13, 32, 122>>, <<14, 32, 121>>, <<15, 32, 120>>,
       <<16, 64, 118>>, <<17, 64, 116>>, <<18, 64, 115>>, <<19, 128, 114>>,
       <<20, 128, 113>>, <<21, 256, 112>>, <<22, 512, 112>>, <<23, 256, 111>>,
       <<24, 512, 111>>, <<25, 256, 111>>, <<26, 512, 110>> >>

\* EdgeList: the word self.0 as its two fields, degree (top DEG_BITS bits,
\* modulo 2^DEG_BITS) and the sum of the edge indices
EdgeList_default == [degree |-> 0, edge_index |-> 0]
EdgeList_add(cell, edge) ==
    [degree |-> (cell.degree + 1) % 2^DEG_BITS, edge_index |-> cell.edge_index + edge]
EdgeList_remove(cell, edge) ==
    [degree |-> (cell.degree - 1) % 2^DEG_BITS, edge_index |-> cell.edge_index - edge]
\* self.0 -= DEG: underflows when the degree is 0
EdgeList_dec(cell) ==
    [degree |-> (cell.degree - 1) % 2^DEG_BITS, edge_index |-> cell.edge_index]

\* the top high_bits bits of sig[0], for high_bits <= 32: those of its
\* top HalfTop bits, followed by the leading ones of the bits below them
TopBits(sig, high_bits) ==
    IF high_bits <= HalfTop
    THEN Hi0(sig) \div 2^(HalfTop - high_bits)
    ELSE Hi0(sig) * 2^(high_bits - HalfTop) + Low0(sig) \div 2^(32 - high_bits)

\* Function::chunk: sig[0].rotate_left(high_bits) & chunk_mask, for a
\* chunk_mask of the form 2^k - 1 with k <= high_bits
chunk(sig, high_bits, chunk_mask) == TopBits(sig, high_bits) % (chunk_mask + 1)

\* (sig[0] >> 32) & ((1 << log2_l) - 1)
FirstSegment(sig, log2_l) ==
    IF log2_l > 32 - HalfTop
    THEN (Hi0(sig) % 2^(log2_l - (32 - HalfTop))) * 2^(32 - HalfTop) + Low0(sig)
    ELSE Low0(sig) % 2^log2_l

\* ((half * segment_size) >> 32) for a half with its top HalfTop bits given
MulShift(half, segment_size) == (half * segment_size) \div 2^HalfTop

\* Function::edge with a plausible slip: the third position is taken in the
\* second segment
edge_two_segments(sig, log2_l, segment_size) ==
    LET start == FirstSegment(sig, log2_l) * segment_size
    IN  << MulShift(Lo0(sig), segment_size) + start,
           MulShift(Lo1(sig), segment_size) + start + segment_size,
           MulShift(Hi1(sig), segment_size) + start + segment_size >>

\* Function::edge
edge(sig, log2_l, segment_size) ==
    LET start == FirstSegment(sig, log2_l) * segment_size
    IN  << MulShift(Lo0(sig), segment_size) + start,
           MulShift(Lo1(sig), segment_size) + start + segment_size,
           MulShift(Hi1(sig), segment_size) + start + 2 * segment_size >>

\* BitFieldSlice::get on the values: panics out of bounds
ValuesGet(values, index) ==
    IF index \in DOMAIN values THEN values[index] ELSE -1

\* Function::get_by_sig with a plausible slip: the mask of the first
\* segment is one bit too wide
get_by_sig_wide_mask(f, sig) ==
    LET e == edge(sig, f.log2_l + 1, f.segment_size)
        c == chunk(sig, f.high_bits, f.chunk_mask)
        chunk_offset == c * ((f.segment_size * 2^f.log2_l) + (f.segment_size * 2))
        v0 == ValuesGet(f.values, e[1] + chunk_offset)
        v1 == ValuesGet(f.values, e[2] + chunk_offset)
        v2 == ValuesGet(f.values, e[3] + chunk_offset)
    IN  IF v0 < 0 \/ v1 < 0 \/ v2 < 0 THEN -1
        ELSE BitXor(BitXor(v0, v1), v2)

\* Function::get_by_sig (-1: a get panicked)
get_by_sig(f, sig) ==
    LET e == edge(sig, f.log2_l, f.segment_size)
        c == chunk(sig, f.high_bits, f.chunk_mask)
        chunk_offset == c * ((f.segment_size * 2^f.log2_l) + (f.segment_size * 2))
        v0 == ValuesGet(f.values, e[1] + chunk_offset)
        v1 == ValuesGet(f.values, e[2] + chunk_offset)
        v2 == ValuesGet(f.values, e[3] + chunk_offset)
    IN  IF v0 < 0 \/ v1 < 0 \/ v2 < 0 THEN -1
        ELSE BitXor(BitXor(v0, v1), v2)

\* high_bits before the parameter loop: 0 when ln(n * eps * eps / 2) <= 0,
\* else ceil((t - ln t) / ln 2), tabulated as <<first n, high_bits>>
HighBitsTable ==
    << <<1, 0>>, <<2000001, 21>>, <<2000002, 20>>, <<2000004, 19>>,
       <<2000008, 18>>, <<2000016, 17>>, <<2000031, 16>>, <<2000062, 15>>,
       <<2000123, 14>>, <<2000245, 13>>, <<2000489, 12>>, <<2000978, 11>>,
       <<2001956, 10>>, <<2003918, 9>>, <<2007859, 8>>, <<2015811, 7>>,
       <<2032004, 6>>, <<2065604, 5>>, <<2138204, 4>>, <<2310742, 3>>,
       <<2859224, 2>>, <<17226339, 3>>, <<52186971, 4>>, <<134722156, 5>>,
       <<326000016, 6>>, <<760411148, 7>>, <<1731477261, 8>> >>

InitialHighBits(num_keys) ==
    IF num_keys = 0 THEN 0
    ELSE LET below == {i \in 1..Len(HighBitsTable) : HighBitsTable[i][1] <= num_keys}
             last == CHOOSE i \in below : \A j \in below : j <= i
         IN  HighBitsTable[last][2]

RECURSIVE SelectParams(_, _)
\* the parameter loop; found = FALSE when the lookup is empty (unwrap panics)
SelectParams(num_keys, high_bits) ==
    LET fits == {i \in 1..Len(PARAMS) : 2^PARAMS[i][1] <= num_keys \div 2^high_bits}
    IN  IF fits = {}
        THEN [found |-> FALSE, high_bits |-> high_bits, l |-> 0, c |-> 0]
        ELSE LET i == CHOOSE i \in fits : \A j \in fits : j <= i
                 l == PARAMS[i][2]
                 c == PARAMS[i][3]
             IN  IF high_bits = 0 \/ c <= 111
                 THEN [found |-> TRUE, high_bits |-> high_bits, l |-> l, c |-> c]
                 ELSE SelectParams(num_keys, high_bits - 1)

\* the order of ([u64; 2], usize)
SigLess(x, y) ==
    \E k \in 1..4 : x[1][k] < y[1][k] /\ \A j \in 1..(k - 1) : x[1][j] = y[1][j]
PairLess(x, y) == SigLess(x, y) \/ (x[1] = y[1] /\ x[2] < y[2])

RECURSIVE Insert(_, _)
Insert(sorted, x) ==
    IF sorted = <<>> THEN <<x>>
    ELSE IF PairLess(x, Head(sorted)) THEN <<x>> \o sorted
         ELSE <<Head(sorted)>> \o Insert(Tail(sorted), x)

RECURSIVE SortSigs(_)
\* sigs.par_sort_unstable()
SortSigs(list) ==
    IF list = <<>> THEN <<>>
    ELSE Insert(SortSigs(SubSeq(list, 1, Len(list) - 1)), list[Len(list)])

RECURSIVE ScanWindows(_, _, _, _)
\* the loop over sigs.windows(2), from window i
ScanWindows(sorted, p, counts, i) ==
    IF i >= Len(sorted) THEN [counts |-> counts, dup |-> FALSE]
    ELSE LET c == chunk(sorted[i][1], p.high_bits, p.chunk_mask)
             counted == [counts EXCEPT ![c] = @ + 1]
         IN  IF sorted[i][1] = sorted[i + 1][1]
             THEN [counts |-> counted, dup |-> TRUE]
             ELSE ScanWindows(sorted, p, counted, i + 1)

\* the scan with a plausible slip: the last signature is not counted
ScanDuplicates_no_last(sorted, p) ==
    ScanWindows(sorted, p, [c \in 0..(p.num_chunks - 1) |-> 0], 1)

\* the duplicate scan and the count of the last signature
ScanDuplicates(sorted, p) ==
    LET r == ScanWindows(sorted, p, [c \in 0..(p.num_chunks - 1) |-> 0], 1)
        last == chunk(sorted[Len(sorted)][1], p.high_bits, p.chunk_mask)
    IN  [r EXCEPT !.counts[last] = @ + 1]

RECURSIVE Cumul(_, _)
\* cumul[i + 1] = cumul[i] + counts[i]
Cumul(counts, i) == IF i = 0 THEN 0 ELSE Cumul(counts, i - 1) + counts[i - 1]

MaxCount(counts) == CHOOSE m \in {counts[c] : c \in DOMAIN counts} :
                        \A c \in DOMAIN counts : counts[c] <= m

\* the products max * c, for max <= MaxPop, that f64 rounds to a value just
\* above an integer: the f64 nearest to 1.10, 1.11 and 1.12 lies above it
MaxPop == 110
F64AboveInteger ==
    {<<25, 112>>, <<50, 112>>, <<75, 112>>, <<100, 112>>, <<100, 111>>,
     <<50, 110>>, <<90, 110>>, <<100, 110>>, <<110, 110>>}

\* (max as f64 * c).ceil() as usize, c in hundredths
CeilMul(max, c) ==
    ((max * c + 99) \div 100) + (IF <<max, c>> \in F64AboveInteger THEN 1 ELSE 0)

\* (X + l + 1) / (l + 2) in usize, X = (max as f64 * c).ceil() as usize
SegmentSize(counts, l, c) ==
    (CeilMul(MaxCount(counts), c) + l + 1) \div (l + 2)

(***************************************************************************)
(* Peeling and assignment of one chunk.  lsigs is the chunk's slice of the *)
(* sorted signatures; vertices and edge indices are 0-based as in the      *)
(* code, the stack is a sequence.                                          *)
(***************************************************************************)
RECURSIVE RemoveOthers(_, _, _, _, _, _)
\* for &x in edge: if x != v { remove(edge_index); push x if degree == 1 }
RemoveOthers(edge_lists, stack, e, v, edge_index, k) ==
    IF k > 3 THEN [edge_lists |-> edge_lists, stack |-> stack]
    ELSE IF e[k] = v THEN RemoveOthers(edge_lists, stack, e, v, edge_index, k + 1)
    ELSE LET removed == [edge_lists EXCEPT ![e[k]] = EdgeList_remove(@, edge_index)]
         IN  RemoveOthers(removed,
                          IF removed[e[k]].degree = 1 THEN Append(stack, e[k]) ELSE stack,
                          e, v, edge_index, k + 1)

RECURSIVE Drain(_, _, _, _, _, _, _)
\* while pos < stack.len(), then stack.truncate(curr); ok = FALSE: dec
\* underflowed the cell with overflow checks on
Drain(edge_lists, stack, lsigs, p, pos, curr, checks) ==
    IF pos >= Len(stack)
    THEN [edge_lists |-> edge_lists, stack |-> SubSeq(stack, 1, curr), ok |-> TRUE]
    ELSE LET v == stack[pos + 1]
         IN  IF edge_lists[v].degree = 0 /\ checks
             THEN [edge_lists |-> edge_lists, stack |-> stack, ok |-> FALSE]
             ELSE LET dec == [edge_lists EXCEPT ![v] = EdgeList_dec(@)]
                  IN  IF dec[v].degree # 0
                      THEN Drain(dec, stack, lsigs, p, pos + 1, curr, checks)
                      ELSE LET edge_index == dec[v].edge_index
                               r == RemoveOthers(dec, [stack EXCEPT ![curr + 1] = v],
                                        edge(lsigs[edge_index + 1][1], p.log2_l, p.segment_size),
                                        v, edge_index, 1)
                           IN  Drain(r.edge_lists, r.stack, lsigs, p, pos + 1, curr + 1, checks)

RECURSIVE ScanBlock(_, _, _, _, _, _)
\* for v in start..(start + incr).min(num_vertices)
ScanBlock(st, lsigs, p, v, end, checks) ==
    LET ones == {x \in v..(end - 1) : st.edge_lists[x].degree = 1}
    IN  IF ~st.ok \/ ones = {} THEN st
        ELSE LET x == CHOOSE x \in ones : \A y \in ones : x <= y   \* others: continue
             IN  ScanBlock(Drain(st.edge_lists, Append(st.stack, x), lsigs, p,
                                 Len(st.stack), Len(st.stack), checks),
                           lsigs, p, x + 1, end, checks)

RECURSIVE AddEdges(_, _, _, _)
\* sigs.iter().enumerate(): edge_lists[v].add(edge_index) for the three v
AddEdges(edge_lists, lsigs, p, i) ==
    IF i > Len(lsigs) THEN edge_lists
    ELSE LET e == edge(lsigs[i][1], p.log2_l, p.segment_size)
             a1 == [edge_lists EXCEPT ![e[1]] = EdgeList_add(@, i - 1)]
             a2 == [a1 EXCEPT ![e[2]] = EdgeList_add(@, i - 1)]
             a3 == [a2 EXCEPT ![e[3]] = EdgeList_add(@, i - 1)]
         IN  AddEdges(a3, lsigs, p, i + 1)

\* the assignment of one popped vertex: the new data, or ok = FALSE when
\* data.set rejects the value or the assert_eq fails
AssignVertex(d, edge_lists, lsigs, p, chunk_no, bw, v) ==
    LET edge_index == edge_lists[v].edge_index
        chunk_offset == chunk_no * p.num_vertices
        e == edge(lsigs[edge_index + 1][1], p.log2_l, p.segment_size)
        e0 == e[1] + chunk_offset
        e1 == e[2] + chunk_offset
        e2 == e[3] + chunk_offset
        vv == v + chunk_offset
        value == IF vv = e0 THEN BitXor(d[e1], d[e2])
                 ELSE IF vv = e1 THEN BitXor(d[e0], d[e2])
                 ELSE BitXor(d[e0], d[e1])
        new == BitXor(lsigs[edge_index + 1][2], value)
        written == [d EXCEPT ![vv] = new]
    IN  IF new >= 2^bw THEN [data |-> d, ok |-> FALSE]
        ELSE [data |-> written,
              ok |-> BitXor(BitXor(written[e0], written[e1]), written[e2])
                         = lsigs[edge_index + 1][2]]

\* the indices of data the assignment pass of a stack gets or sets: for
\* every vertex of the stack, v + chunk_offset and the three edge[k] +
\* chunk_offset of its edge
AssignTouched(edge_lists, stack, lsigs, p, chunk_no) ==
    LET chunk_offset == chunk_no * p.num_vertices
    IN  UNION {{stack[k] + chunk_offset} \cup
               {edge(lsigs[edge_lists[stack[k]].edge_index + 1][1], p.log2_l,
                     p.segment_size)[n] + chunk_offset : n \in 1..3} :
               k \in 1..Len(stack)}

RECURSIVE AssignStack_forward(_, _, _, _, _, _, _)
\* the assignment with a plausible slip: the stack is walked in peeling order
AssignStack_forward(d, edge_lists, stack, lsigs, p, chunk_no, bw) ==
    IF stack = <<>> THEN [data |-> d, ok |-> TRUE]
    ELSE LET r == AssignVertex(d, edge_lists, lsigs, p, chunk_no, bw, Head(stack))
         IN  IF ~r.ok THEN r
             ELSE AssignStack_forward(r.data, edge_lists, Tail(stack), lsigs, p, chunk_no, bw)

RECURSIVE AssignStack(_, _, _, _, _, _, _)
\* while let Some(v) = stack.pop()
AssignStack(d, edge_lists, stack, lsigs, p, chunk_no, bw) ==
    IF stack = <<>> THEN [data |-> d, ok |-> TRUE]
    ELSE LET r == AssignVertex(d, edge_lists, lsigs, p, chunk_no, bw, stack[Len(stack)])
         IN  IF ~r.ok THEN r
             ELSE AssignStack(r.data, edge_lists, SubSeq(stack, 1, Len(stack) - 1),
                              lsigs, p, chunk_no, bw)

(***************************************************************************)
(* Function::new as a state machine: sign, sort and scan, duplicate retry  *)
(* or planning, the workers (take a chunk, peel by blocks, assign), and    *)
(* the outcome.                                                            *)
(***************************************************************************)
KeySeqs ==
    {[i \in 1..n |-> i] : n \in 0..MaxKeys}
        \cup {[i \in 1..n |-> IF i = n THEN 1 ELSE i] : n \in 2..MaxKeys}

\* the values 0, 1, 2, ... of main, or all ones
ValueSeqs(n, bw) == {[i \in 1..n |-> (i - 1) % 2^bw], [i \in 1..n |-> 2^bw - 1]}

KeysOf(keys) == {keys[i] : i \in 1..Len(keys)}

NoPlan == [high_bits |-> 0, l |-> 0, c |-> 0, log2_l |-> 0, num_chunks |-> 0,
           chunk_mask |-> 0, counts |-> <<>>, dup |-> FALSE, cumul |-> <<>>,
           segment_size |-> 0, num_vertices |-> 0]

NoFunction == [seed |-> 0, log2_l |-> 0, high_bits |-> 0, chunk_mask |-> 0,
               num_keys |-> 0, segment_size |-> 0, values |-> <<>>]

\* remap has not been evaluated at the current seed
NotHashed == [none |-> TRUE]

NewWorker == [pc |-> "take", chunk |-> 0, lsigs |-> <<>>, edge_lists |-> <<>>,
              stack |-> <<>>, next |-> 0]

\* what the claims need of the past: the seeds signed with, the attempts that
\* found a duplicate, the attempts that failed to peel, and for the current
\* attempt the chunks whose peeling ended, what each worker last loaded from
\* fail, the blocks each worker scanned although fail was already set, and
\* whether a block was scanned after its worker had loaded fail as set
NoHistory == [seeds_tried |-> <<>>, dups_seen |-> 0, dup_at_0 |-> FALSE,
              peel_retries |-> 0, peeled |-> {},
              observed |-> [w \in 1..NumCpus |-> FALSE],
              late |-> [w \in 1..NumCpus |-> 0],
              ignored |-> FALSE,
              taken |-> <<>>, touched |-> {}, assigned |-> <<>>,
              edge |-> <<>>]

InitFunc ==
    /\ overflow_checks \in BOOLEAN
    /\ VecIdle /\ AtomicIdle /\ EFIdle
    /\ \E keys \in KeySeqs, bw \in {2} : \E values \in ValueSeqs(Len(keys), bw) :
           args = [keys |-> keys, values |-> values, bit_width |-> bw]
    /\ remap = NotHashed
    /\ seed = 0 /\ dup_count = 0
    /\ fpc = "sign" /\ panic_msg = ""
    /\ sigs = <<>> /\ plan = NoPlan
    /\ data = <<>> /\ chunk_ctr = 0 /\ fail = FALSE /\ workers = <<>>
    /\ func = NoFunction
    /\ hist = NoHistory

\* the hash at a seed: any function from the keys to signatures; at the
\* last seed the model tries, the hash repeats the one of the seed before it
Remaps == IF remap = NotHashed THEN [KeysOf(args.keys) -> Sigs] ELSE {remap}

\* continue with the next seed of `for seed in 0..`: the locals of the
\* attempt are dropped
Retry ==
    /\ seed < MaxSeed
    /\ seed' = seed + 1
    /\ remap' = IF seed + 1 < MaxSeed THEN NotHashed ELSE remap
    /\ fpc' = "sign"
    /\ sigs' = <<>> /\ plan' = NoPlan
    /\ data' = <<>> /\ chunk_ctr' = 0 /\ fail' = FALSE /\ workers' = <<>>

Panic(msg) == fpc' = "panicked" /\ panic_msg' = msg

U32_BITS == 32

\* (1u32 << high_bits) - 1, the shift amount taken modulo 32 when the build
\* has no overflow checks
ChunkMask(high_bits) == 2^(high_bits % U32_BITS) - 1

\* signing, and the outcome p of the parameter loop
FnSignWith(p) ==
    LET n == Len(args.keys)
    IN  /\ fpc = "sign"
        /\ hist' = [hist EXCEPT !.seeds_tried = Append(@, seed),
                                !.peeled = {},
                                !.observed = [w \in 1..NumCpus |-> FALSE],
                                !.late = [w \in 1..NumCpus |-> 0],
                                !.ignored = FALSE,
                                !.taken = <<>>, !.touched = {}, !.assigned = <<>>]
        /\ remap' \in Remaps
        /\ IF Len(args.values) < n
           THEN Panic("Not enough values") /\ UNCHANGED <<sigs, plan>>
           ELSE /\ sigs' = [i \in 1..n |-> <<remap'[args.keys[i]], args.values[i]>>]
                /\ IF ~p.found
                   THEN Panic("called Option::unwrap() on a None value")
                        /\ UNCHANGED plan
                   ELSE IF p.high_bits >= U32_BITS /\ overflow_checks
                   THEN Panic("attempt to shift left with overflow")
                        /\ UNCHANGED plan
                   ELSE /\ plan' = [NoPlan EXCEPT !.high_bits = p.high_bits,
                                                  !.l = p.l, !.c = p.c,
                                                  !.log2_l = FloorLog2(p.l),
                                                  !.num_chunks = 2^p.high_bits,
                                                  !.chunk_mask = ChunkMask(p.high_bits)]
                        /\ fpc' = "sort"
                        /\ UNCHANGED panic_msg
        /\ UNCHANGED <<args, seed, dup_count, data, chunk_ctr, fail, workers, func>>

\* signing and parameter selection
FnSign ==
    FnSignWith(SelectParams(Len(args.keys), InitialHighBits(Len(args.keys))))

\* par_sort_unstable and the duplicate scan
FnSortScan ==
    LET sorted == SortSigs(sigs)
        r == ScanDuplicates(sorted, plan)
    IN  /\ fpc = "sort"
        /\ sigs' = sorted
        /\ plan' = [plan EXCEPT !.counts = r.counts, !.dup = r.dup]
        /\ fpc' = "dup"
        /\ UNCHANGED <<args, remap, seed, dup_count, panic_msg, data, chunk_ctr,
                       fail, workers, func, hist>>

\* if dup { if dup_count >= 3 { panic } dup_count += 1; continue }
FnDuplicate ==
    /\ fpc = "dup" /\ plan.dup
    /\ hist' = [hist EXCEPT !.dups_seen = @ + 1, !.dup_at_0 = @ \/ seed = 0]
    /\ IF dup_count >= 3
       THEN /\ Panic("Duplicate keys (duplicate 128-bit signaturs with three different seeds)")
            /\ UNCHANGED <<seed, remap, dup_count, sigs, plan, data, chunk_ctr,
                           fail, workers>>
       ELSE /\ dup_count' = dup_count + 1
            /\ Retry
            /\ UNCHANGED panic_msg
    /\ UNCHANGED <<args, func>>

\* cumul, segment_size, num_vertices, the data vector and the thread scope
FnPlan ==
    LET segment_size == SegmentSize(plan.counts, plan.l, plan.c)
        num_vertices == segment_size * (plan.l + 2)
    IN  /\ fpc = "dup" /\ ~plan.dup
        /\ plan' = [plan EXCEPT
               !.cumul = [i \in 0..plan.num_chunks |-> Cumul(plan.counts, i)],
               !.segment_size = segment_size,
               !.num_vertices = num_vertices]
        /\ data' = [i \in 0..(num_vertices * plan.num_chunks - 1) |-> 0]
        /\ chunk_ctr' = 0
        /\ fail' = FALSE
        /\ workers' = [w \in 1..Min(plan.num_chunks, NumCpus) |-> NewWorker]
        /\ fpc' = "workers"
        /\ UNCHANGED <<args, remap, seed, dup_count, panic_msg, sigs, func, hist>>

\* chunk.fetch_add(1), and the graph of the chunk
WorkerTakeChunk(w) ==
    LET c == chunk_ctr
        lsigs == SubSeq(sigs, plan.cumul[c] + 1, plan.cumul[c + 1])
    IN  /\ fpc = "workers" /\ workers[w].pc = "take"
        /\ chunk_ctr' = chunk_ctr + 1
        /\ workers' = [workers EXCEPT ![w] =
               IF c >= plan.num_chunks THEN [@ EXCEPT !.pc = "done"]
               ELSE [pc |-> "peel", chunk |-> c, lsigs |-> lsigs,
                     edge_lists |-> AddEdges(
                         [v \in 0..(plan.num_vertices - 1) |-> EdgeList_default],
                         lsigs, plan, 1),
                     stack |-> <<>>, next |-> 0]]
        /\ hist' = [hist EXCEPT !.taken = Append(@, [worker |-> w, chunk |-> c])]
        /\ UNCHANGED <<args, remap, seed, dup_count, fpc, panic_msg, sigs, plan,
                       data, fail, func>>

\* the top of the peeling loop: if fail.load(Relaxed) { return }
WorkerLoadFail(w) ==
    /\ fpc = "workers" /\ workers[w].pc = "peel"
    /\ workers' = [workers EXCEPT ![w].pc = IF fail THEN "done" ELSE "block"]
    /\ hist' = [hist EXCEPT !.observed[w] = fail]
    /\ UNCHANGED <<args, remap, seed, dup_count, fpc, panic_msg, sigs, plan,
                   data, chunk_ctr, fail, func>>

\* the rest of the iteration: next.fetch_add(incr), and either the scan of
\* the block or the end of the peeling with its store to fail
WorkerPeelBlock(w) ==
    LET wk == workers[w]
        start == wk.next
        r == ScanBlock([edge_lists |-> wk.edge_lists, stack |-> wk.stack, ok |-> TRUE],
                       wk.lsigs, plan, start,
                       Min(start + PeelIncr, plan.num_vertices), overflow_checks)
    IN  /\ fpc = "workers" /\ wk.pc = "block"
        /\ IF start >= plan.num_vertices
           THEN /\ fail' = (fail \/ Len(wk.lsigs) # Len(wk.stack))
                /\ workers' = [workers EXCEPT ![w].pc = "assign",
                                              ![w].next = start + PeelIncr]
                /\ hist' = [hist EXCEPT !.peeled = @ \cup
                                {[chunk |-> wk.chunk, edges |-> Len(wk.lsigs),
                                  peeled |-> Len(wk.stack)]}]
           ELSE /\ workers' = [workers EXCEPT ![w] =
                       [wk EXCEPT !.pc = IF r.ok THEN "peel" ELSE "panicked",
                                  !.edge_lists = r.edge_lists,
                                  !.stack = r.stack,
                                  !.next = start + PeelIncr]]
                /\ hist' = [hist EXCEPT !.late[w] = IF fail THEN @ + 1 ELSE @,
                                        !.ignored = @ \/ hist.observed[w]]
                /\ UNCHANGED fail
        /\ UNCHANGED <<args, remap, seed, dup_count, fpc, panic_msg, sigs, plan,
                       data, chunk_ctr, func>>

\* the assignment pass of the chunk
WorkerAssign(w) ==
    LET wk == workers[w]
        r == AssignStack(data, wk.edge_lists, wk.stack, wk.lsigs, plan, wk.chunk,
                         args.bit_width)
    IN  /\ fpc = "workers" /\ wk.pc = "assign"
        /\ data' = r.data
        /\ workers' = [workers EXCEPT ![w].pc = IF r.ok THEN "take" ELSE "panicked"]
        /\ hist' = [hist EXCEPT
               !.touched = @ \cup
                   {[worker |-> w, chunk |-> wk.chunk, index |-> i] :
                        i \in AssignTouched(wk.edge_lists, wk.stack, wk.lsigs, plan,
                                            wk.chunk)},
               !.assigned = IF r.ok THEN Append(@, wk.chunk) ELSE @]
        /\ UNCHANGED <<args, remap, seed, dup_count, fpc, panic_msg, sigs, plan,
                       chunk_ctr, fail, func>>

\* the scope has joined: a worker's panic propagates, a failed peeling
\* retries, else the function is returned
FnOutcome ==
    /\ fpc = "workers"
    /\ \A w \in DOMAIN workers : workers[w].pc \in {"done", "panicked"}
    /\ IF \E w \in DOMAIN workers : workers[w].pc = "panicked"
       THEN /\ Panic("a scoped thread panicked")
            /\ UNCHANGED <<seed, remap, func, sigs, plan, data, chunk_ctr, fail,
                           workers, hist>>
       ELSE IF fail
       THEN /\ Retry
            /\ hist' = [hist EXCEPT !.peel_retries = @ + 1]
            /\ UNCHANGED <<panic_msg, func>>
       ELSE /\ func' = [seed |-> seed, log2_l |-> plan.log2_l,
                        high_bits |-> plan.high_bits, chunk_mask |-> plan.chunk_mask,
                        num_keys |-> Len(sigs), segment_size |-> plan.segment_size,
                        values |-> data]
            /\ fpc' = "returned"
            /\ UNCHANGED <<seed, remap, panic_msg, sigs, plan, data, chunk_ctr,
                           fail, workers, hist>>
    /\ UNCHANGED <<args, dup_count>>

NextFunc ==
    /\ \/ FnSign
       \/ FnSortScan
       \/ FnDuplicate
       \/ FnPlan
       \/ \E w \in DOMAIN workers :
              \/ WorkerTakeChunk(w)
              \/ WorkerLoadFail(w)
              \/ WorkerPeelBlock(w)
              \/ WorkerAssign(w)
       \/ FnOutcome
    /\ UNCHANGED <<overflow_checks, vecVars, atomicVars, efVars>>

Spec == InitFunc /\ [][NextFunc]_vars

(***************************************************************************)
(* The parameter selection of Function::new on its own, one iteration of   *)
(* the loop per step, for key sets given by their size only (args holds    *)
(* num_keys): the sizes around every power of two and around every change  *)
(* of the initial high_bits.                                               *)
(***************************************************************************)
ParamKeys ==
    {k \in UNION {{2^e - 1, 2^e, 2^e + 1} : e \in 0..30} : k >= 1}
        \cup UNION {{HighBitsTable[i][1] - 1, HighBitsTable[i][1]} :
                       i \in 2..Len(HighBitsTable)}

\* PARAMS.iter().rev().filter(..).next(): the index of the entry, 0 if none
ParamLookup(num_keys, high_bits) ==
    LET fits == {i \in 1..Len(PARAMS) : 2^PARAMS[i][1] <= num_keys \div 2^high_bits}
    IN  IF fits = {} THEN 0 ELSE CHOOSE i \in fits : \A j \in fits : j <= i

InitParams ==
    /\ overflow_checks \in BOOLEAN
    /\ VecIdle /\ AtomicIdle /\ EFIdle
    /\ \E num_keys \in ParamKeys :
           /\ args = [num_keys |-> num_keys]
           /\ plan = [NoPlan EXCEPT !.high_bits = InitialHighBits(num_keys)]
    /\ fpc = "params" /\ panic_msg = ""
    /\ remap = NotHashed /\ seed = 0 /\ dup_count = 0
    /\ sigs = <<>> /\ data = <<>> /\ chunk_ctr = 0 /\ fail = FALSE /\ workers = <<>>
    /\ func = NoFunction
    /\ hist = NoHistory

\* one iteration of the loop: the lookup and its unwrap, the break or the
\* decrement of high_bits
ParamLoop ==
    LET i == ParamLookup(args.num_keys, plan.high_bits)
    IN  /\ fpc = "params"
        /\ IF i = 0
           THEN Panic("called Option::unwrap() on a None value") /\ UNCHANGED plan
           ELSE /\ plan' = IF plan.high_bits = 0 \/ PARAMS[i][3] <= 111
                           THEN [plan EXCEPT !.l = PARAMS[i][2], !.c = PARAMS[i][3]]
                           ELSE [plan EXCEPT !.high_bits = @ - 1]
                /\ fpc' = IF plan.high_bits = 0 \/ PARAMS[i][3] <= 111
                          THEN "selected" ELSE "params"
                /\ UNCHANGED panic_msg
        /\ UNCHANGED <<args, remap, seed, dup_count, sigs, data, chunk_ctr, fail,
                       workers, func, hist>>

NextParams ==
    /\ ParamLoop
    /\ UNCHANGED <<overflow_checks, vecVars, atomicVars, efVars>>

SpecParams == InitParams /\ [][NextParams]_vars

(***************************************************************************)
(* The geometry of Function::new and Function::edge on their own: the      *)
(* largest chunk population and the table entry are given, one step sets   *)
(* segment_size and num_vertices, and edge is then called on signatures    *)
(* whose sig[0] >> 32 has low bits set.  The populations are those up to   *)
(* MaxPop whose product with c is exceptional in f64, small ones, and      *)
(* large ones whose products are not exceptional.                          *)
(***************************************************************************)
GeometryPops == {1, 2, 3, 5, 25, 50, 99, 100, MaxPop, 8191, 2^24}

EdgeHalves == {0, 1, 2^HalfTop - 1}
EdgeLows == {0, 1, 31, 511, 2^(32 - HalfTop) - 1}
EdgeSigs ==
    {<<h0, lo0, hi1, lo1, low>> :
        h0 \in {0, 2^HalfTop - 1}, lo0 \in EdgeHalves, hi1 \in EdgeHalves,
        lo1 \in EdgeHalves, low \in EdgeLows}

InitGeometry ==
    /\ overflow_checks \in BOOLEAN
    /\ VecIdle /\ AtomicIdle /\ EFIdle
    /\ \E max \in GeometryPops, i \in 1..Len(PARAMS) :
           /\ args = [num_keys |-> max]
           /\ plan = [NoPlan EXCEPT !.l = PARAMS[i][2], !.c = PARAMS[i][3],
                                    !.log2_l = FloorLog2(PARAMS[i][2]),
                                    !.num_chunks = 1,
                                    !.counts = [ch \in 0..0 |-> max]]
    /\ fpc = "geometry" /\ panic_msg = ""
    /\ remap = NotHashed /\ seed = 0 /\ dup_count = 0
    /\ sigs = <<>> /\ data = <<>> /\ chunk_ctr = 0 /\ fail = FALSE /\ workers = <<>>
    /\ func = NoFunction
    /\ hist = NoHistory

\* let segment_size = ..; let num_vertices = segment_size * (l + 2);
Geometry ==
    LET segment_size == SegmentSize(plan.counts, plan.l, plan.c)
    IN  /\ fpc = "geometry"
        /\ plan' = [plan EXCEPT !.segment_size = segment_size,
                                !.num_vertices = segment_size * (plan.l + 2)]
        /\ fpc' = "edges"
        /\ UNCHANGED <<args, remap, seed, dup_count, panic_msg, sigs, data,
                       chunk_ctr, fail, workers, func, hist>>

\* Self::edge(sig, log2_l, segment_size), called once
EdgeCall ==
    /\ fpc = "edges" /\ hist.edge = <<>>
    /\ \E sig \in EdgeSigs :
           hist' = [hist EXCEPT
               !.edge = <<sig, edge(sig, plan.log2_l, plan.segment_size)>>]
    /\ UNCHANGED <<args, remap, seed, dup_count, fpc, panic_msg, sigs, plan, data,
                   chunk_ctr, fail, workers, func>>

NextGeometry ==
    /\ Geometry \/ EdgeCall
    /\ UNCHANGED <<overflow_checks, vecVars, atomicVars, efVars>>

SpecGeometry == InitGeometry /\ [][NextGeometry]_vars

\* Function::get, for a function whose seed is the seed remap stands for
get(f, key) == get_by_sig(f, remap[key])

DistinctKeys == \A i, j \in 1..Len(args.keys) : args.keys[i] = args.keys[j] => i = j

\* the three positions the builder used for the i-th key of the attempt
BuiltEdge(i) == edge(remap[args.keys[i]], plan.log2_l, plan.segment_size)

(***************************************************************************)
(* C1: for pairwise distinct keys and values that fit in bit_width bits,   *)
(* when Function::new returns f, f.get(keys[i]) = values[i] for every i:   *)
(* the query hashes with the seed of the attempt and uses the same         *)
(* geometry (chunk offset = chunk * num_vertices), and the XOR of the      *)
(* three stored entries is the value.                                      *)
(***************************************************************************)
C1_GetReturnsValue ==
    (fpc = "returned" /\ DistinctKeys) =>
        /\ func.seed = seed
        /\ (func.segment_size * 2^func.log2_l) + (func.segment_size * 2)
               = plan.num_vertices
        /\ \A i \in 1..Len(args.keys) :
               /\ edge(remap[args.keys[i]], func.log2_l, func.segment_size) = BuiltEdge(i)
               /\ get(func, args.keys[i]) = args.values[i]

\* a function of three keys returned after a retry, two of whose edges share
\* a vertex, with three different values
C1_Witness ==
    /\ fpc = "returned" /\ DistinctKeys
    /\ Len(args.keys) >= 3 /\ seed >= 1
    /\ args.values[2] # args.values[3]
    /\ \E k \in 1..3 : BuiltEdge(1)[k] = BuiltEdge(2)[k]
    /\ BuiltEdge(1) # BuiltEdge(2)

DuplicateKeysPanic ==
    /\ fpc = "panicked"
    /\ panic_msg = "Duplicate keys (duplicate 128-bit signaturs with three different seeds)"

(***************************************************************************)
(* C9: the duplicate counter is kept across attempts and counts the        *)
(* attempts in which the scan found two equal consecutive signatures; when *)
(* it reaches 3, at the third such attempt, the build fails with the       *)
(* 'duplicate keys' panic; before that a duplicate restarts the build.     *)
(***************************************************************************)
C9_ThirdDuplicateFails ==
    /\ dup_count = hist.dups_seen
    /\ hist.dups_seen >= 3 => DuplicateKeysPanic
    /\ DuplicateKeysPanic => hist.dups_seen = 3

\* the attempt at the last seed has failed to peel, as did the attempt
\* before it on the same signatures: every later attempt fails alike
PeelingFailsForever ==
    /\ seed = MaxSeed
    /\ fpc = "workers"
    /\ \A w \in DOMAIN workers : workers[w].pc = "done"
    /\ fail

(***************************************************************************)
(* C10: the attempts use the seeds 0, 1, 2, ... in order, every retry      *)
(* starting again from signing with the next seed; a build whose           *)
(* signatures collide only at seed 0 succeeds at a later seed (it does not *)
(* fail to peel at every later seed); the seed stored in the returned      *)
(* function is the seed of the attempt that produced the stored values.    *)
(***************************************************************************)
C10_SeedLoop ==
    /\ \A i \in 1..Len(hist.seeds_tried) : hist.seeds_tried[i] = i - 1
    /\ Len(hist.seeds_tried) = (IF fpc = "sign" THEN seed ELSE seed + 1)
    /\ fpc = "returned" => (func.seed = seed /\ func.values = data)
    /\ (DistinctKeys /\ hist.dup_at_0 /\ hist.dups_seen = 1) => ~PeelingFailsForever

\* the chunks of the attempt whose peeling ended with every edge peeled
CompleteChunks == {r.chunk : r \in {q \in hist.peeled : q.edges = q.peeled}}

\* a chunk of the attempt whose peeling ended short of its edges
IncompleteChunk == \E r \in hist.peeled : r.edges # r.peeled

\* what holds of a failed peeling whatever the interleaving of the workers
FailedPeeling(max_late) ==
    /\ fpc = "returned" =>
           /\ ~fail
           /\ CompleteChunks = 0..(plan.num_chunks - 1)
           /\ \A c \in 0..(plan.num_chunks - 1) :
                  [chunk |-> c, edges |-> plan.counts[c], peeled |-> plan.counts[c]]
                      \in hist.peeled
           /\ \A w \in DOMAIN workers : workers[w].pc = "done"
    /\ (fpc = "workers" /\ IncompleteChunk) => fail
    /\ seed = dup_count + hist.peel_retries
    /\ fpc = "sign" => (data = <<>> /\ workers = <<>> /\ ~fail)
    /\ ~hist.ignored
    /\ \A w \in 1..NumCpus : hist.late[w] <= max_late

\* The outcome of the attempts as far as the key sets of the model show it,
\* every attempt running one worker on one chunk: a function is returned
\* only from an attempt whose chunk was peeled completely; a chunk peeled
\* short of its edges sets fail, the worker terminates, the data vector is
\* discarded and the next attempt runs with seed + 1.
AttemptOutcome == FailedPeeling(0)

(***************************************************************************)
(* C17: on every returned function, get_by_sig of any signature, one of a  *)
(* key of the build or not, reads three positions below values.len() (no   *)
(* get panics) and returns a value in [0, 2^bit_width).                    *)
(***************************************************************************)
\* the least, the middle and the greatest values of a 32-bit half (all the
\* values when HalfTop = 2)
QueryHalves == {0, 1, 2^(HalfTop - 1), 2^HalfTop - 1}

\* the signatures of those halves, with the least, the second and the
\* greatest value of the bits of sig[0] >> 32 below its top HalfTop bits
QuerySigs ==
    {<<a, b, c, d, low>> : a \in QueryHalves, b \in QueryHalves,
                           c \in QueryHalves, d \in QueryHalves,
                           low \in {0, 1, 2^(32 - HalfTop) - 1}}

\* the largest position get_by_sig reads for sig
LastPosition(f, sig) ==
    edge(sig, f.log2_l, f.segment_size)[3]
        + chunk(sig, f.high_bits, f.chunk_mask)
              * ((f.segment_size * 2^f.log2_l) + (f.segment_size * 2))

C17_GetBySigInBounds ==
    fpc = "returned" =>
        \A sig \in QuerySigs :
            get_by_sig(func, sig) \in 0..(2^args.bit_width - 1)

\* a returned function with two vertices per segment and a nonzero value
\* stored, and a signature of no key that reads the last position of the
\* values
C17_Witness ==
    /\ fpc = "returned" /\ func.segment_size = 2
    /\ \E i \in DOMAIN func.values : func.values[i] # 0
    /\ \E sig \in QuerySigs :
           /\ LastPosition(func, sig) = func.segment_size * (2^func.log2_l + 2) - 1
           /\ \A i \in 1..Len(sigs) : sigs[i][1] # SubSeq(sig, 1, 4)
           /\ get_by_sig(func, sig) \in 0..(2^args.bit_width - 1)

(***************************************************************************)
(* C20: a build from an empty key sequence does not panic, neither in the  *)
(* parameter selection nor in the duplicate scan, and returns a function   *)
(* with len() = 0; a build from a single key returns a function that maps  *)
(* the key to its value.                                                   *)
(***************************************************************************)
C20_EmptyAndSingleKey ==
    /\ Len(args.keys) <= 1 => fpc # "panicked"
    /\ (fpc = "returned" /\ Len(args.keys) = 0) => func.num_keys = 0
    /\ (fpc = "returned" /\ Len(args.keys) = 1) =>
           /\ func.num_keys = 1
           /\ get(func, args.keys[1]) = args.values[1]

\* what the code does: the single key is built at seed 0, the empty build
\* panics in the parameter selection
C20_SingleKeyBuilt ==
    /\ (fpc = "returned" /\ Len(args.keys) = 1) =>
           /\ func.num_keys = 1 /\ func.seed = 0
           /\ get(func, args.keys[1]) = args.values[1]
    /\ Len(args.keys) = 1 => fpc # "panicked"
    /\ Len(args.keys) = 0 =>
           /\ fpc \in {"sign", "panicked"}
           /\ fpc = "panicked" => panic_msg = "called Option::unwrap() on a None value"

\* the worker panicked inside a block scan: the start it last fetched lies
\* below num_vertices
PanickedInPeeling(wk) ==
    wk.pc = "panicked" /\ wk.next - PeelIncr < plan.num_vertices

(***************************************************************************)
(* C21: in the peeling drain every vertex taken from the stack has degree  *)
(* 1 right before dec, so dec never takes a cell below zero: no worker     *)
(* panics in the drain and no degree field wraps around, even when two     *)
(* endpoints of one edge reach degree 1 before either is processed.        *)
(***************************************************************************)
C21_DecAtDegreeOne ==
    \A w \in DOMAIN workers :
        /\ ~PanickedInPeeling(workers[w])
        /\ \A v \in DOMAIN workers[w].edge_lists :
               workers[w].edge_lists[v].degree # 2^DEG_BITS - 1

\* the worker has run the assignment pass of the chunk it holds
Assigned(wk) ==
    /\ wk.pc \in {"take", "done"} /\ wk.lsigs # <<>>
    /\ wk.next - PeelIncr >= plan.num_vertices

\* the positions in data of the i-th edge of the worker's chunk
EdgePositions(wk, i) ==
    LET e == edge(wk.lsigs[i][1], plan.log2_l, plan.segment_size)
        chunk_offset == wk.chunk * plan.num_vertices
    IN  <<e[1] + chunk_offset, e[2] + chunk_offset, e[3] + chunk_offset>>

\* the k-th vertex popped by the assignment pass, and the edge it reveals
PoppedVertex(wk, k) == wk.stack[Len(wk.stack) + 1 - k]
PoppedEdge(wk, k) == wk.edge_lists[PoppedVertex(wk, k)].edge_index + 1

(***************************************************************************)
(* C22: when the peeling of a chunk removed every edge, at the end of the  *)
(* assignment pass values[e0] XOR values[e1] XOR values[e2] = value holds  *)
(* for every edge of the chunk; the position written for an edge is none   *)
(* of the positions of an edge assigned before it, and no position is      *)
(* written twice.                                                          *)
(***************************************************************************)
C22_AssignmentFinal ==
    \A w \in DOMAIN workers :
        LET wk == workers[w]
        IN  (Assigned(wk) /\ Len(wk.stack) = Len(wk.lsigs)) =>
                /\ \A i \in 1..Len(wk.lsigs) :
                       LET e == EdgePositions(wk, i)
                       IN  BitXor(BitXor(data[e[1]], data[e[2]]), data[e[3]])
                               = wk.lsigs[i][2]
                /\ \A j, k \in 1..Len(wk.stack) :
                       j < k =>
                           /\ PoppedVertex(wk, j) # PoppedVertex(wk, k)
                           /\ \A n \in 1..3 :
                                  EdgePositions(wk, PoppedEdge(wk, j))[n]
                                      # PoppedVertex(wk, k) + wk.chunk * plan.num_vertices

\* three edges peeled and assigned, two of them sharing a position, with
\* nonzero values, in the build where a stale stack entry was skipped
C22_Witness ==
    \E w \in DOMAIN workers :
        LET wk == workers[w]
        IN  /\ Assigned(wk) /\ Len(wk.stack) = 3 /\ Len(wk.lsigs) = 3
            /\ \E n \in 1..3 : EdgePositions(wk, 1)[n] = EdgePositions(wk, 2)[n]
            /\ \E v \in DOMAIN wk.edge_lists : wk.edge_lists[v].degree = 2^DEG_BITS - 1
            /\ \E i \in DOMAIN data : data[i] = 3
            /\ \E i \in DOMAIN data : data[i] = 1

\* The chunks and the workers as far as the key sets of the model show
\* them: every value fetched from the shared counter is obtained once,
\* every index of data the assignment gets or sets for chunk c lies in
\* [c * num_vertices, (c + 1) * num_vertices), and when the builder returns
\* every chunk has been assigned once.
ChunksAssigned ==
    /\ \A i, j \in 1..Len(hist.taken) :
           hist.taken[i].chunk = hist.taken[j].chunk => i = j
    /\ fpc \in {"workers", "returned"} =>
           /\ \A i \in 1..Len(hist.taken) : hist.taken[i].chunk = i - 1
           /\ \A t \in hist.touched :
                  /\ t.index >= t.chunk * plan.num_vertices
                  /\ t.index < (t.chunk + 1) * plan.num_vertices
                  /\ \E i \in 1..Len(hist.taken) :
                         hist.taken[i] = [worker |-> t.worker, chunk |-> t.chunk]
    /\ fpc = "returned" =>
           /\ \A c \in 0..(plan.num_chunks - 1) :
                  \E i \in 1..Len(hist.assigned) : hist.assigned[i] = c
           /\ \A i, j \in 1..Len(hist.assigned) :
                  hist.assigned[i] = hist.assigned[j] => i = j

\* (sig0 rotate_left high_bits) AND (2^high_bits - 1): the top high_bits
\* bits of sig0
ChunkOf(sig, high_bits) == TopBits(sig, high_bits) % 2^high_bits

\* The sort and the scan as far as the key sets of the model show them
\* (high_bits = 0, one chunk): the signatures are in ascending order, the
\* counts sum to num_keys and the slice of each chunk holds exactly the
\* signatures of that chunk.
ChunkSlices ==
    fpc = "workers" =>
        /\ \A i \in 1..(Len(sigs) - 1) : SigLess(sigs[i], sigs[i + 1])
        /\ Cumul(plan.counts, plan.num_chunks) = Len(args.keys)
        /\ plan.cumul[plan.num_chunks] = Len(sigs)
        /\ \A c \in 0..(plan.num_chunks - 1), i \in 1..Len(sigs) :
               (plan.cumul[c] < i /\ i <= plan.cumul[c + 1])
                   <=> ChunkOf(sigs[i][1], plan.high_bits) = c

(***************************************************************************)
(* C25: for every num_keys >= 1, with the initial high_bits its formula    *)
(* gives, every iteration of the parameter loop finds a table entry with   *)
(* 2^threshold <= num_keys >> high_bits (the unwrap never panics), the     *)
(* loop decrements high_bits while c > 1.11 and high_bits > 0, and it ends *)
(* with high_bits = 0 or c <= 1.11.                                        *)
(***************************************************************************)
C25_LookupNeverEmpty ==
    /\ fpc # "panicked"
    /\ fpc = "selected" =>
           /\ plan.high_bits = 0 \/ plan.c <= 111
           /\ SelectParams(args.num_keys, InitialHighBits(args.num_keys))
                  = [found |-> TRUE, high_bits |-> plan.high_bits, l |-> plan.l,
                     c |-> plan.c]

(***************************************************************************)
(* C26: for every signature and every geometry, edge returns one position  *)
(* in each of the segments first_segment, first_segment + 1 and            *)
(* first_segment + 2, where first_segment = (sig[0] >> 32) AND (l - 1); the *)
(* three positions are pairwise distinct and smaller than                  *)
(* num_vertices = segment_size * (l + 2).                                  *)
(***************************************************************************)
C26_EdgeInSegments ==
    (fpc = "edges" /\ hist.edge # <<>>) =>
        LET sig == hist.edge[1]
            e == hist.edge[2]
            first_segment == BitAndN(Low0(sig), plan.l - 1, 32 - HalfTop)
        IN  /\ 1 <= plan.segment_size
            /\ \A k \in 1..3 :
                   /\ (first_segment + k - 1) * plan.segment_size <= e[k]
                   /\ e[k] < (first_segment + k) * plan.segment_size
            /\ e[1] # e[2] /\ e[1] # e[3] /\ e[2] # e[3]
            /\ plan.num_vertices = plan.segment_size * (plan.l + 2)
            /\ \A k \in 1..3 : e[k] < plan.num_vertices

\* an edge in the last three segments of a geometry with l = 512 and
\* several vertices per segment
C26_Witness ==
    /\ fpc = "edges" /\ hist.edge # <<>>
    /\ plan.l = 512
    /\ hist.edge[2][1] \div plan.segment_size = plan.l - 1
    /\ hist.edge[2][3] \div plan.segment_size = plan.l + 1
    /\ plan.segment_size > 1

(***************************************************************************)
(* C27: segment_size is the ceiling of (X + l + 1) / (l + 2), X =          *)
(* ceil(m * c), m the largest chunk population.  The code divides in       *)
(* usize, rounding the quotient down.                                      *)
(***************************************************************************)
C27_SegmentSizeCeilOfSum ==
    fpc = "edges" =>
        LET X == CeilMul(MaxCount(plan.counts), plan.c)
        IN  /\ (plan.segment_size - 1) * (plan.l + 2) < X + plan.l + 1
            /\ X + plan.l + 1 <= plan.segment_size * (plan.l + 2)

\* the elements the first k calls of the iterator yielded by the given call
RangeYielded(call, k) ==
    Cardinality({j \in 1..k : it.out[j].call = call /\ it.out[j].res # -1})

(***************************************************************************)
(* C28: an iterator over start..end with start <= end <= len yields, under *)
(* every interleaving of next and next_back, get(start), get(start + 1),   *)
(* ... from next and get(end - 1), get(end - 2), ... from next_back, each  *)
(* index once; when end - start elements have been yielded both return     *)
(* None; len() is the number of elements not yet yielded.                  *)
(***************************************************************************)
C28_DoubleEndedIter ==
    (it.kind = "range" /\ it.from[1] <= it.from[2]) =>
        LET n == it.from[2] - it.from[1]
        IN  /\ it.status = "ok"
            /\ \A k \in 1..Len(it.out) :
                   LET nf == RangeYielded("next", k - 1)
                       nb == RangeYielded("next_back", k - 1)
                   IN  it.out[k].res =
                           IF nf + nb >= n THEN -1
                           ELSE IF it.out[k].call = "next"
                                THEN get_unchecked(vec, it.from[1] + nf)
                                ELSE get_unchecked(vec, it.from[2] - 1 - nb)
            /\ RangeLen = n - RangeYielded("next", Len(it.out))
                             - RangeYielded("next_back", Len(it.out))

(***************************************************************************)
(* C29: for every bit_width and every index i < len, address_of(i) is the  *)
(* address of the word at position floor(i * bit_width / W::BITS), the     *)
(* word get(i) reads first.                                                *)
(***************************************************************************)
C29_AddressOfFirstWord ==
    (vec_op.name = "address_of" /\ vec_op.index < vec.len) =>
        /\ vec_status = "ok"
        /\ vec_op.value = (vec_op.index * vec.bit_width) \div WBITS

(***************************************************************************)
(* C30: a Vec<T> serialized at any stream position, also one where the     *)
(* byte after the length is not at a multiple of size_of::<T>(), is read   *)
(* back as a slice from the same position: the slice holds exactly the     *)
(* serialized items and the remainder starts just past the last item, the  *)
(* padding between the length and the items being skipped.                 *)
(***************************************************************************)
C30_SliceAtAnyPosition ==
    vec_op.name \in {"map", "load"} =>
        LET size == vec_op.value
            pad == pad_align_to(vec_op.index + USIZE_BYTES, size)
        IN  /\ vec_status = "ok"
            /\ vec.data = vec_ref.list
            /\ vec.len = USIZE_BYTES + pad + size * Len(vec_ref.list)

====
